---- MODULE Spec2Model ----
(***************************************************************************)
(* Aegis-AI: the incremental streaming Markdown renderer                   *)
(* (src/components/StreamingMessage.vue) and the chunk loop that feeds it  *)
(* (src/composables/messagesManager.js, src/composables/message.js).       *)
(*                                                                         *)
(* Texts are sequences of characters, HTML strings are sequences of        *)
(* tokens ("<p>", characters, "</p>"), and the two containers hold         *)
(* sequences of DOM nodes, so that writing innerHTML (parsing) and reading *)
(* a region back (serialising) are real conversions.                       *)
(***************************************************************************)
EXTENDS Integers, Sequences, FiniteSets, TLC

\* ------------------------------------------------------------------ bounds
MaxLen == 6          \* longest text the content prop takes
MaxSuffix == 3       \* longest suffix one update appends
MaxReplace == 4      \* longest text that replaces the content in one update
MaxTruncations == 1  \* updates that shorten the content to a strict prefix
MaxTruncLen == MaxLen \div 2   \* longest text such an update shortens
                               \* (the stale tail buffer grows with it)
MaxEmit == 2         \* the emit counters saturate here
MaxEvents == 3       \* server-sent events of one response

NL == "\n"
Chars == {"a", NL}

RECURSIVE TextsOfLen(_)
TextsOfLen(n) ==
  IF n = 0 THEN {<<>>}
  ELSE {Append(t, c) : t \in TextsOfLen(n - 1), c \in Chars}

Texts == UNION {TextsOfLen(n) : n \in 0..MaxLen}

\* ------------------------------------------------------- string primitives
\* String.prototype.startsWith
StartsWith(s, p) == Len(p) <= Len(s) /\ SubSeq(s, 1, Len(p)) = p

\* String.prototype.slice(from), 0-based from
SliceFrom(s, from) == SubSeq(s, from + 1, Len(s))

\* String.prototype.substring(0, n)
Substring0(s, n) == SubSeq(s, 1, n)

Min(a, b) == IF a <= b THEN a ELSE b

\* mdText.trim().length === 0 : only white space (here: newlines)
IsBlank(s) == \A i \in 1..Len(s) : s[i] = NL

\* index of the last character of the run of newlines that starts at i
RECURSIVE RunEnd(_, _)
RunEnd(s, i) == IF i < Len(s) /\ s[i + 1] = NL THEN RunEnd(s, i + 1) ELSE i

\* String.prototype.split(/\n{2,}/): leftmost, greedy matches
RECURSIVE RegexSplit(_, _, _, _)
RegexSplit(s, i, cur, acc) ==
  IF i > Len(s) THEN Append(acc, cur)
  ELSE IF s[i] = NL /\ i < Len(s) /\ s[i + 1] = NL
       THEN RegexSplit(s, RunEnd(s, i) + 1, <<>>, Append(acc, cur))
       ELSE RegexSplit(s, i + 1, Append(cur, s[i]), acc)

\* faulty variant: the separator pattern /\n\n/ instead of /\n{2,}/
RECURSIVE RegexSplitTwo(_, _, _, _)
RegexSplitTwo(s, i, cur, acc) ==
  IF i > Len(s) THEN Append(acc, cur)
  ELSE IF s[i] = NL /\ i < Len(s) /\ s[i + 1] = NL
       THEN RegexSplitTwo(s, i + 2, <<>>, Append(acc, cur))
       ELSE RegexSplitTwo(s, i + 1, Append(cur, s[i]), acc)

splitIntoBlocksTwo(markdown) ==
  IF markdown = <<>> THEN << <<>> >> ELSE RegexSplitTwo(markdown, 1, <<>>, <<>>)

splitIntoBlocks(markdown) ==
  IF markdown = <<>> THEN << <<>> >> ELSE RegexSplit(markdown, 1, <<>>, <<>>)

\* ------------------------------------------------------------ markdown-it
\* String.prototype.split("\n"): the lines of a text
RECURSIVE Lines(_, _, _, _)
Lines(s, i, cur, acc) ==
  IF i > Len(s) THEN Append(acc, cur)
  ELSE IF s[i] = NL THEN Lines(s, i + 1, <<>>, Append(acc, cur))
       ELSE Lines(s, i + 1, Append(cur, s[i]), acc)

Paragraph(para) == <<"<p>">> \o para \o <<"</p>", NL>>

\* paragraphs are maximal runs of non-empty lines, joined by "\n"
RECURSIVE RenderLines(_, _, _, _)
RenderLines(ls, i, para, out) ==
  IF i > Len(ls) THEN (IF para = <<>> THEN out ELSE out \o Paragraph(para))
  ELSE IF ls[i] = <<>>
       THEN RenderLines(ls, i + 1, <<>>,
                        IF para = <<>> THEN out ELSE out \o Paragraph(para))
       ELSE RenderLines(ls, i + 1,
                        IF para = <<>> THEN ls[i] ELSE para \o <<NL>> \o ls[i],
                        out)

\* md.render(text) for plain paragraph text
mdRender(text) == RenderLines(Lines(text, 1, <<>>, <<>>), 1, <<>>, <<>>)

renderBlockHtml(mdText) ==
  IF mdText = <<>> \/ IsBlank(mdText) THEN <<>> ELSE mdRender(mdText)

\* ------------------------------------------------------------------- DOM
\* element.innerHTML = html : parse the tokens into child nodes
RECURSIVE ParseHtml(_, _, _, _, _)
ParseHtml(html, i, inP, cur, acc) ==
  IF i > Len(html)
  THEN (IF cur = <<>> THEN acc
        ELSE Append(acc, [tag |-> IF inP THEN "p" ELSE "#text", text |-> cur]))
  ELSE IF html[i] = "<p>"
       THEN ParseHtml(html, i + 1, TRUE, <<>>,
                      IF cur = <<>> THEN acc
                      ELSE Append(acc, [tag |-> "#text", text |-> cur]))
       ELSE IF html[i] = "</p>"
            THEN ParseHtml(html, i + 1, FALSE, <<>>,
                           Append(acc, [tag |-> "p", text |-> cur]))
            ELSE ParseHtml(html, i + 1, inP, Append(cur, html[i]), acc)

SetInnerHTML(html) == ParseHtml(html, 1, FALSE, <<>>, <<>>)

\* reading a region back: the serialisation of its child nodes
RECURSIVE Serialize(_)
Serialize(nodes) ==
  IF nodes = <<>> THEN <<>>
  ELSE (IF Head(nodes).tag = "p"
        THEN <<"<p>">> \o Head(nodes).text \o <<"</p>">>
        ELSE Head(nodes).text) \o Serialize(Tail(nodes))


\* ------------------------------------------------------------------ state
VARIABLES
  content,             \* prop content
  isComplete,          \* prop isComplete
  mounted,             \* the template refs are bound (after the first render)
  staticContainer,     \* child nodes of the static container
  streamingContainer,  \* child nodes of the streaming container
  appendedBlockCount,
  tailMarkdown,
  prevContent,
  lastRenderKey,
  hasEmittedStart,
  path,                \* branch of processContentNow taken by the last callback
  emitStart,           \* the last callback emitted 'start'
  emitComplete,        \* the last callback emitted 'complete'
  starts,              \* number of 'start' events so far (saturating)
  truncations,         \* number of shortening updates so far
  appendOnly           \* every update so far extended the text

rvars == <<content, isComplete, mounted, staticContainer, streamingContainer,
           appendedBlockCount, tailMarkdown, prevContent, lastRenderKey,
           hasEmittedStart, path, emitStart, emitComplete, starts, truncations,
           appendOnly>>

\* the message manager and the response stream of one sendMessage call
VARIABLES
  messages,            \* messages.value
  isLoading,
  phase,               \* "idle", "streaming", "done" or "rejected" (sendMessage
                       \* ended with an exception): position of sendMessage
  assistantMsg,        \* the object sendMessage holds and mutates
  firstTokenReceived,
  pending,             \* chunks the generator yields for the event it has read
  eventsRead,          \* events read from the response body so far
  clock,               \* new Date(): one tick per processed chunk
  recvContent,         \* content deltas handed to the loop so far, in order
  recvReasoning,       \* reasoning deltas handed to the loop so far, in order
  parsedDelta,         \* the delta the generator has just parsed, if any
  aborted,             \* controller.signal.aborted
  genClosed,           \* the generator yielded from its catch block
  deltaText,           \* content text of the deltas read from the response
  toolOrder,           \* tool indexes in the order they first arrived
  lastTool             \* per tool index, the last record that arrived

svars == <<messages, isLoading, phase, assistantMsg, firstTokenReceived,
           pending, eventsRead, clock, recvContent, recvReasoning,
           parsedDelta, aborted, genClosed, deltaText, toolOrder, lastTool>>

\* a rendered message and the citation resolver working on it
VARIABLES
  citeText,            \* the message text handed to renderMessageContent
  container,           \* tempDiv: present or not, and its child blocks
  lastTools,           \* executedTools of the last processCitationsInPlace
  calls                \* calls of processCitationsInPlace on this subtree

cvars == <<citeText, container, lastTools, calls>>

\* a renderer whose markdown engine can throw
VARIABLES
  failures             \* updates in which md.render threw

fvars == <<failures>>

\* one call of the fence rule of the markdown engine
VARIABLES
  tokenInfo,           \* token.info: the words after the opening fence
  tokenContent,        \* token.content: the code
  highlightThrows,     \* hljs.highlight throws for this language and code
  fenceResult          \* what the rule returned, or that it threw

hvars == <<tokenInfo, tokenContent, highlightThrows, fenceResult>>

\* the message manager over several sendMessage calls, with the conversation
\* store and the memory store
VARIABLES
  chatMessages,        \* messages.value
  sending,             \* isLoading.value
  isIncognito,
  currConvo,           \* 0 stands for '' (no conversation)
  conversations,       \* the entries conversation_<id> of the local store
  inFlight,            \* the sendMessage calls that have not returned yet
  sendCount,           \* sendMessage calls that passed the guard so far
  incognitoIds,        \* ids of the messages sent or received in incognito
  memoryEnabled,       \* settings.global_memory_enabled
  memoryFacts,         \* the stored memory facts
  memoryJobs,          \* updateMemory calls that have not finished yet
  lastRequest          \* the last request handleIncomingMessage has built

nvars == <<chatMessages, sending, isIncognito, currConvo, conversations,
           inFlight, sendCount, incognitoIds, memoryEnabled, memoryFacts,
           memoryJobs, lastRequest>>

\* the conversation entries of the local store, call by call
VARIABLES
  convStore,           \* ids with an entry conversation_<id>
  metadata,            \* the entry conversations_metadata: a list of ids
  storeCalls,          \* createConversation / storeMessages /
                       \* deleteConversation calls that have not returned
  storeOps,            \* calls started so far
  createdConvs,        \* ids created so far (the next id is createdConvs + 1)
  deletedConvs         \* ids whose deleteConversation has returned

kvars == <<convStore, metadata, storeCalls, storeOps, createdConvs,
           deletedConvs>>

\* the memory entry of the local store, call by call
VARIABLES
  memStore,            \* the entry global_chatbot_memory, or Absent
  memCalls,            \* updateMemory / deleteMemory calls that have not
                       \* returned
  memOps,              \* calls started so far (also the clock of timestamps)
  memLast              \* the call that returned last and how

gvars == <<memStore, memCalls, memOps, memLast>>

vars == <<rvars, svars, cvars, fvars, hvars, nvars, kvars, gvars>>

\* the component instance as a record, threaded through the functions
Self ==
  [mounted |-> mounted, static |-> staticContainer,
   streaming |-> streamingContainer, count |-> appendedBlockCount,
   tail |-> tailMarkdown, prev |-> prevContent, key |-> lastRenderKey,
   started |-> hasEmittedStart, path |-> path,
   emitStart |-> FALSE, emitComplete |-> FALSE]

\* ------------------------------------------------------------- functions
\* faulty variant: the moved nodes are inserted before the committed ones
appendElementToStaticFirst(st) ==
  IF ~st.mounted THEN st
  ELSE [st EXCEPT !.static = st.streaming \o st.static, !.streaming = <<>>]

appendElementToStatic(st) ==
  IF ~st.mounted THEN st
  ELSE [st EXCEPT !.static = st.static \o st.streaming, !.streaming = <<>>]

setStreamingHtml(st, html) ==
  IF ~st.mounted THEN st
  ELSE IF st.key = html THEN st
  ELSE [st EXCEPT !.key = html, !.streaming = SetInnerHTML(html)]

\* faulty variant: the full rendering is left in the streaming container
finalizeAllNoMove(st, fullText) ==
  IF ~st.mounted THEN st
  ELSE LET s1 == [st EXCEPT !.static = <<>>, !.streaming = <<>>]
           s2 == setStreamingHtml(s1, mdRender(fullText))
       IN [s2 EXCEPT !.tail = <<>>, !.count = 0, !.key = <<>>,
                     !.prev = fullText]

finalizeAll(st, fullText) ==
  IF ~st.mounted THEN st
  ELSE LET s1 == [st EXCEPT !.static = <<>>, !.streaming = <<>>]
           s2 == setStreamingHtml(s1, mdRender(fullText))
           s3 == appendElementToStatic(s2)
       IN [s3 EXCEPT !.tail = <<>>, !.count = 0, !.key = <<>>,
                     !.prev = fullText]

\* the last block of a split
LastBlock(blocks) == IF Len(blocks) > 0 THEN blocks[Len(blocks)] ELSE <<>>

\* faulty variant: the last block counts as complete too
CompleteBlocksOfAll(blocks) == blocks

\* blocks.slice(0, blocks.length - 1)
CompleteBlocksOf(blocks) ==
  IF Len(blocks) > 1 THEN SubSeq(blocks, 1, Len(blocks) - 1) ELSE <<>>

\* accumulatedHtml of the blocks with 0-based index from..Len-1
RECURSIVE Accumulate(_, _)
Accumulate(blocks, from) ==
  IF from >= Len(blocks) THEN <<>>
  ELSE renderBlockHtml(blocks[from + 1]) \o Accumulate(blocks, from + 1)

processAppendedSuffix(st, suffix) ==
  IF suffix = <<>>
  THEN setStreamingHtml(st, renderBlockHtml(LastBlock(splitIntoBlocks(st.tail))))
  ELSE LET previousTail == st.tail
           s1 == [st EXCEPT !.tail = st.tail \o suffix]
           blocks == splitIntoBlocks(s1.tail)
           completeBlocks == CompleteBlocksOf(blocks)
           previousBlocks == splitIntoBlocks(previousTail)
           previousCompleteCount ==
             IF Len(previousBlocks) > 1 THEN Len(previousBlocks) - 1 ELSE 0
           accumulatedHtml == Accumulate(completeBlocks, previousCompleteCount)
           s2 == IF Len(completeBlocks) > previousCompleteCount
                 THEN LET s2a == IF accumulatedHtml # <<>>
                                 THEN appendElementToStatic(
                                        setStreamingHtml(s1, accumulatedHtml))
                                 ELSE s1
                      IN [s2a EXCEPT !.count = Len(completeBlocks)]
                 ELSE s1
       IN setStreamingHtml(s2, renderBlockHtml(LastBlock(blocks)))

handleNonPrefixReplace(st, newContent, complete) ==
  IF complete
  THEN [finalizeAll(st, newContent) EXCEPT !.prev = newContent]
  ELSE LET s1 == [st EXCEPT !.static = IF st.mounted THEN <<>> ELSE st.static,
                            !.count = 0, !.tail = <<>>, !.key = <<>>,
                            !.prev = <<>>]
           blocks == splitIntoBlocks(newContent)
           completeBlocks == CompleteBlocksOf(blocks)
           accumulatedHtml == Accumulate(completeBlocks, 0)
           s2 == [s1 EXCEPT !.count = Len(completeBlocks)]
           s3 == IF accumulatedHtml # <<>>
                 THEN appendElementToStatic(setStreamingHtml(s2, accumulatedHtml))
                 ELSE s2
           s4 == [s3 EXCEPT !.tail = LastBlock(blocks)]
           s5 == setStreamingHtml(s4, renderBlockHtml(s4.tail))
       IN [s5 EXCEPT !.prev = newContent]

processContentNow(st, newContent, complete) ==
  IF complete
  THEN [finalizeAll(st, newContent) EXCEPT
          !.prev = newContent, !.emitComplete = TRUE, !.path = "complete"]
  ELSE IF st.prev = <<>>
  THEN LET s0 == IF ~st.started
                 THEN [st EXCEPT !.emitStart = TRUE, !.started = TRUE]
                 ELSE st
       IN [handleNonPrefixReplace(s0, newContent, FALSE) EXCEPT
             !.prev = newContent, !.path = "init"]
  ELSE IF StartsWith(newContent, st.prev)
  THEN [processAppendedSuffix(st, SliceFrom(newContent, Len(st.prev))) EXCEPT
          !.prev = newContent, !.path = "append"]
  ELSE IF ~StartsWith(newContent,
                      Substring0(st.prev, Min(Len(st.prev), Len(newContent))))
  THEN [handleNonPrefixReplace(st, newContent, complete) EXCEPT
          !.path = "reset"]
  ELSE [processAppendedSuffix(st, <<>>) EXCEPT
          !.prev = newContent, !.path = "minor"]

\* faulty variant: the start flag is never re-armed
WatchCallbackNoRearm(st, newContent, complete) ==
  processContentNow(st, newContent, complete)

\* the callback of watch(() => [props.content, props.isComplete], ...)
WatchCallback(st, newContent, complete) ==
  LET s0 == IF newContent = <<>> \/ Len(newContent) < Len(st.prev)
            THEN [st EXCEPT !.started = FALSE]
            ELSE st
  IN processContentNow(s0, newContent, complete)

\* ---------------------------------------------------------------- actions
Commit(st) ==
  /\ staticContainer' = st.static
  /\ streamingContainer' = st.streaming
  /\ appendedBlockCount' = st.count
  /\ tailMarkdown' = st.tail
  /\ prevContent' = st.prev
  /\ lastRenderKey' = st.key
  /\ hasEmittedStart' = st.started
  /\ path' = st.path
  /\ emitStart' = st.emitStart
  /\ emitComplete' = st.emitComplete
  /\ starts' = IF st.emitStart THEN Min(starts + 1, MaxEmit) ELSE starts

RInit ==
  /\ content = <<>>
  /\ isComplete = FALSE
  /\ mounted = FALSE
  /\ staticContainer = <<>>
  /\ streamingContainer = <<>>
  /\ appendedBlockCount = 0
  /\ tailMarkdown = <<>>
  /\ prevContent = <<>>
  /\ lastRenderKey = <<>>
  /\ hasEmittedStart = FALSE
  /\ path = "none"
  /\ emitStart = FALSE
  /\ emitComplete = FALSE
  /\ starts = 0
  /\ truncations = 0
  /\ appendOnly = TRUE

\* { immediate: true }: the callback runs once inside setup(), before the
\* template refs are bound; the component is mounted right after.
WatchImmediate ==
  /\ path = "none"
  /\ Commit(WatchCallback(Self, content, isComplete))
  /\ mounted' = TRUE
  /\ UNCHANGED <<content, isComplete, truncations, appendOnly>>
  /\ UNCHANGED <<svars, cvars, fvars, hvars, nvars, kvars, gvars>>

\* the texts one update can turn the content c into
Extensions(c) ==
  {t \in Texts : StartsWith(t, c) /\ t # c /\ Len(t) - Len(c) <= MaxSuffix}
Truncations(c) == {SubSeq(c, 1, n) : n \in 0..(Len(c) - 1)}
Replacements(c) ==
  {t \in Texts : Len(t) <= MaxReplace /\ ~StartsWith(t, c) /\ ~StartsWith(c, t)}

\* the transport appended a delta to the message text
AppendUpdate ==
  /\ mounted
  /\ ~isComplete
  /\ \E newContent \in Extensions(content) :
       /\ content' = newContent
       /\ Commit(WatchCallback(Self, newContent, FALSE))
  /\ UNCHANGED <<isComplete, mounted, truncations, appendOnly>>
  /\ UNCHANGED <<svars, cvars, fvars, hvars, nvars, kvars, gvars>>

\* the message text was shortened to one of its strict prefixes
TruncateUpdate ==
  /\ mounted
  /\ ~isComplete
  /\ truncations < MaxTruncations
  /\ Len(content) <= MaxTruncLen
  /\ \E newContent \in Truncations(content) :
       /\ content' = newContent
       /\ Commit(WatchCallback(Self, newContent, FALSE))
  /\ truncations' = truncations + 1
  /\ appendOnly' = FALSE
  /\ UNCHANGED <<isComplete, mounted>>
  /\ UNCHANGED <<svars, cvars, fvars, hvars, nvars, kvars, gvars>>

\* the message text was replaced by an unrelated text
ReplaceUpdate ==
  /\ mounted
  /\ ~isComplete
  /\ \E newContent \in Replacements(content) :
       /\ content' = newContent
       /\ Commit(WatchCallback(Self, newContent, FALSE))
  /\ appendOnly' = FALSE
  /\ UNCHANGED <<isComplete, mounted, truncations>>
  /\ UNCHANGED <<svars, cvars, fvars, hvars, nvars, kvars, gvars>>

\* the text a message is marked complete with: the text streamed so far, or
\* an error text when nothing was streamed
FinalTexts(c) == {c} \cup (IF c = <<>> THEN Extensions(c) ELSE {})

\* the message is marked complete, with its final text
CompleteUpdate ==
  /\ mounted
  /\ ~isComplete
  /\ \E newContent \in FinalTexts(content) :
       /\ content' = newContent
       /\ Commit(WatchCallback(Self, newContent, TRUE))
  /\ isComplete' = TRUE
  /\ UNCHANGED <<mounted, truncations, appendOnly>>
  /\ UNCHANGED <<svars, cvars, fvars, hvars, nvars, kvars, gvars>>



Next ==
  \/ WatchImmediate
  \/ AppendUpdate
  \/ TruncateUpdate
  \/ ReplaceUpdate
  \/ CompleteUpdate

\* ------------------------------------------------ the response stream
\* a field of a chunk or of a delta: absent (null / undefined) or a string
Absent == [present |-> FALSE, text |-> <<>>]
Present(t) == [present |-> TRUE, text |-> t]
DeltaFields == {Absent, Present(<<>>), Present(<<"a">>), Present(<<"b">>)}

Tool(i, o) == [index |-> i, output |-> o]
ToolLists ==
  {<<>>, <<Tool(0, "")>>, <<Tool(0, "u")>>, <<Tool(1, "v"), Tool(0, "w")>>,
   <<Tool(0, "v"), Tool(0, "u")>>}
ToolIndexes == {0, 1}
NoTool == Tool(-1, "")

\* choices[0].delta of one "data: " line; tools absent or a list
Deltas ==
  [content : DeltaFields, reasoning : DeltaFields,
   hasTools : BOOLEAN, executed_tools : ToolLists]

\* a string is truthy when it is present and not empty
Truthy(f) == f.present /\ f.text # <<>>

\* the chunks handleIncomingMessage yields for one delta, in order
ChunksOfDelta(delta) ==
  LET executedTools == IF delta.hasTools THEN delta.executed_tools ELSE <<>>
      c1 == IF Truthy(delta.content)
            THEN <<[content |-> delta.content, reasoning |-> Absent,
                    executed_tools |-> executedTools]>>
            ELSE <<>>
      c2 == IF Truthy(delta.reasoning)
            THEN <<[content |-> Absent, reasoning |-> delta.reasoning,
                    executed_tools |-> executedTools]>>
            ELSE <<>>
      c3 == IF delta.hasTools /\ ~Truthy(delta.content)
               /\ ~Truthy(delta.reasoning)
            THEN <<[content |-> Absent, reasoning |-> Absent,
                    executed_tools |-> executedTools]>>
            ELSE <<>>
  IN c1 \o c2 \o c3

NoTime == 0   \* a time field that is still null
NoDuration == -1   \* reasoningDuration: null

UserMessage(text) ==
  [id |-> 1, role |-> "user", content |-> text, complete |-> TRUE]

NewAssistantMessage ==
  [id |-> 2, role |-> "assistant", reasoning |-> <<>>, content |-> <<>>,
   executed_tools |-> <<>>, complete |-> FALSE, firstTokenTime |-> NoTime,
   completionTime |-> NoTime, tokenCount |-> 0,
   reasoningStartTime |-> NoTime, reasoningEndTime |-> NoTime,
   reasoningDuration |-> NoDuration, errorDetails |-> FALSE]

\* messages.value.findIndex(m => m.id === id), 0 when there is none
FindIndex(msgs, id) ==
  IF \E i \in 1..Len(msgs) : msgs[i].id = id
  THEN CHOOSE i \in 1..Len(msgs) :
         msgs[i].id = id /\ \A j \in 1..(i - 1) : msgs[j].id # id
  ELSE 0

\* { ...message, ...updates }
Spread(message, updates) ==
  [f \in (DOMAIN message) \cup (DOMAIN updates) |->
     IF f \in DOMAIN updates THEN updates[f] ELSE message[f]]

updateAssistantMessage(msgs, message, updates) ==
  LET index == FindIndex(msgs, message.id)
  IN IF index # 0
     THEN [msgs EXCEPT ![index] = Spread(msgs[index], updates)]
     ELSE msgs

\* messages.value.splice(messages.value.length - 1, 1, updatedMsg)
SpliceLast(msgs, updatedMsg) ==
  IF Len(msgs) = 0 THEN <<updatedMsg>>
  ELSE [msgs EXCEPT ![Len(msgs)] = updatedMsg]

\* faulty variant: every record that arrives is pushed
RECURSIVE MergeToolsPush(_, _)
MergeToolsPush(tools, updates) ==
  IF updates = <<>> THEN tools
  ELSE MergeToolsPush(Append(tools, Head(updates)), Tail(updates))

\* chunk.executed_tools.forEach: replace the record with the same index
RECURSIVE MergeTools(_, _)
MergeTools(tools, updates) ==
  IF updates = <<>> THEN tools
  ELSE LET tool == Head(updates)
           hit == {i \in 1..Len(tools) : tools[i].index = tool.index}
           existingToolIndex ==
             IF hit = {} THEN 0
             ELSE CHOOSE i \in hit : \A j \in hit : i <= j
       IN MergeTools(IF existingToolIndex # 0
                     THEN [tools EXCEPT ![existingToolIndex] = tool]
                     ELSE Append(tools, tool),
                     Tail(updates))

\* faulty variant: a content delta is put in front of the text
ApplyContentFront(msg, chunk, first, now) ==
  IF chunk.content.present
  THEN [msg EXCEPT
          !.content = chunk.content.text \o @,
          !.firstTokenTime = IF first THEN @ ELSE now,
          !.tokenCount = @ + 1]
  ELSE msg

\* if (chunk.content !== null && chunk.content !== undefined) { ... }
\* (a delta without white space counts as one token)
ApplyContent(msg, chunk, first, now) ==
  IF chunk.content.present
  THEN [msg EXCEPT
          !.content = @ \o chunk.content.text,
          !.firstTokenTime = IF first THEN @ ELSE now,
          !.tokenCount = @ + 1,
          !.reasoningEndTime =
             IF chunk.content.text # <<>>
                /\ msg.reasoningStartTime # NoTime /\ @ = NoTime
             THEN now ELSE @]
  ELSE msg

\* faulty variant: every reasoning delta stamps the start time
ApplyReasoningRestamp(msg, chunk, first, now) ==
  IF chunk.reasoning.present
  THEN [msg EXCEPT
          !.reasoning = @ \o chunk.reasoning.text,
          !.firstTokenTime = IF first THEN @ ELSE now,
          !.tokenCount = @ + 1,
          !.reasoningStartTime = now]
  ELSE msg

\* if (chunk.reasoning !== null && chunk.reasoning !== undefined) { ... }
ApplyReasoning(msg, chunk, first, now) ==
  IF chunk.reasoning.present
  THEN [msg EXCEPT
          !.reasoning = @ \o chunk.reasoning.text,
          !.firstTokenTime = IF first THEN @ ELSE now,
          !.tokenCount = @ + 1,
          !.reasoningStartTime = IF @ = NoTime THEN now ELSE @]
  ELSE msg

\* chunks that do not come from a delta; the loop does not read their error
\* and errorDetails fields
TextChunk(text) ==
  [content |-> Present(<<text>>), reasoning |-> Absent, executed_tools |-> <<>>]
ErrorEventChunk == TextChunk("[ERROR]")
CanceledChunk == TextChunk("[STREAM CANCELED]")
CriticalErrorChunk == TextChunk("[CRITICAL ERROR]")

\* the last record of updates with index k, dflt when there is none
LastOf(updates, k, dflt) ==
  LET hit == {i \in 1..Len(updates) : updates[i].index = k}
  IN IF hit = {} THEN dflt
     ELSE updates[CHOOSE i \in hit : \A j \in hit : j <= i]

\* seen, followed by the indexes of updates that are not in it yet
RECURSIVE NewIndexes(_, _)
NewIndexes(seen, updates) ==
  IF updates = <<>> THEN seen
  ELSE NewIndexes(IF \E i \in 1..Len(seen) : seen[i] = Head(updates).index
                  THEN seen ELSE Append(seen, Head(updates).index),
                  Tail(updates))

SInit ==
  /\ messages = <<>>
  /\ isLoading = FALSE
  /\ phase = "idle"
  /\ assistantMsg = NewAssistantMessage
  /\ firstTokenReceived = FALSE
  /\ pending = <<>>
  /\ eventsRead = 0
  /\ clock = 1
  /\ recvContent = <<>>
  /\ recvReasoning = <<>>
  /\ parsedDelta = <<>>
  /\ aborted = FALSE
  /\ genClosed = FALSE
  /\ deltaText = <<>>
  /\ toolOrder = <<>>
  /\ lastTool = [k \in ToolIndexes |-> NoTool]

\* sendMessage up to the chunk loop (one call is followed)
SendMessage ==
  /\ phase = "idle"
  /\ ~isLoading
  /\ \E modelSelected, storageOk \in BOOLEAN :
       LET pushed == messages \o <<UserMessage(<<"q">>), NewAssistantMessage>>
       IN IF ~storageOk
          THEN \* await createNewConversation(...) or await
               \* localforage.getItem(...) rejects: sendMessage ends there
               /\ messages' = pushed
               /\ isLoading' = TRUE
               /\ phase' = "rejected"
          ELSE IF modelSelected
          THEN /\ messages' = pushed
               /\ isLoading' = TRUE
               /\ phase' = "streaming"
          ELSE /\ messages' = updateAssistantMessage(
                                pushed, NewAssistantMessage,
                                [content |-> <<"Error: No AI model selected.">>,
                                 complete |-> TRUE])
               /\ isLoading' = FALSE
               /\ phase' = "done"
  /\ assistantMsg' = NewAssistantMessage
  /\ firstTokenReceived' = FALSE
  /\ aborted' = FALSE
  /\ UNCHANGED <<pending, eventsRead, clock, recvContent, recvReasoning,
                 parsedDelta, genClosed, deltaText, toolOrder, lastTool>>
  /\ UNCHANGED <<rvars, cvars, fvars, hvars, nvars, kvars, gvars>>

\* the generator reads the next "data: " line and parses its delta
ReadEvent ==
  /\ phase = "streaming"
  /\ pending = <<>>
  /\ eventsRead < MaxEvents
  /\ ~aborted
  /\ ~genClosed
  /\ \E delta \in Deltas :
       /\ pending' = ChunksOfDelta(delta)
       /\ parsedDelta' = <<[content |-> delta.content,
                            reasoning |-> delta.reasoning]>>
       /\ deltaText' = IF delta.content.present
                       THEN deltaText \o delta.content.text
                       ELSE deltaText
  /\ eventsRead' = eventsRead + 1
  /\ UNCHANGED <<messages, isLoading, phase, assistantMsg, firstTokenReceived,
                 clock, recvContent, recvReasoning, aborted, genClosed,
                 toolOrder, lastTool>>
  /\ UNCHANGED <<rvars, cvars, fvars, hvars, nvars, kvars, gvars>>

\* one round of for await (const chunk of streamGenerator)
ProcessChunk ==
  /\ phase = "streaming"
  /\ pending # <<>>
  /\ LET chunk == Head(pending)
         m1 == ApplyContent(assistantMsg, chunk, firstTokenReceived, clock)
         first1 == firstTokenReceived \/ chunk.content.present
         m2 == ApplyReasoning(m1, chunk, first1, clock)
         first2 == first1 \/ chunk.reasoning.present
         m3 == [m2 EXCEPT
                  !.executed_tools = MergeTools(@, chunk.executed_tools)]
     IN /\ assistantMsg' = m3
        /\ firstTokenReceived' = first2
        /\ messages' = SpliceLast(messages, m3)
        /\ recvContent' = IF chunk.content.present
                          THEN recvContent \o chunk.content.text
                          ELSE recvContent
        /\ recvReasoning' = IF chunk.reasoning.present
                            THEN recvReasoning \o chunk.reasoning.text
                            ELSE recvReasoning
        /\ lastTool' = [k \in ToolIndexes |->
                          LastOf(chunk.executed_tools, k, lastTool[k])]
        /\ toolOrder' = NewIndexes(toolOrder, chunk.executed_tools)
  /\ pending' = Tail(pending)
  /\ clock' = clock + 1
  /\ parsedDelta' = <<>>
  /\ UNCHANGED <<isLoading, phase, eventsRead, aborted, genClosed, deltaText>>
  /\ UNCHANGED <<rvars, cvars, fvars, hvars, nvars, kvars, gvars>>

\* a "data: " line that carries an error object
ReadErrorEvent ==
  /\ phase = "streaming"
  /\ pending = <<>>
  /\ eventsRead < MaxEvents
  /\ ~aborted
  /\ ~genClosed
  /\ pending' = <<ErrorEventChunk>>
  /\ deltaText' = deltaText \o ErrorEventChunk.content.text
  /\ eventsRead' = eventsRead + 1
  /\ parsedDelta' = <<>>
  /\ UNCHANGED <<messages, isLoading, phase, assistantMsg, firstTokenReceived,
                 clock, recvContent, recvReasoning, aborted, genClosed,
                 toolOrder, lastTool>>
  /\ UNCHANGED <<rvars, cvars, fvars, hvars, nvars, kvars, gvars>>

\* the user presses the stop button: controller.abort()
Abort ==
  /\ phase = "streaming"
  /\ ~aborted
  /\ aborted' = TRUE
  /\ UNCHANGED <<messages, isLoading, phase, assistantMsg, firstTokenReceived,
                 pending, eventsRead, clock, recvContent, recvReasoning,
                 parsedDelta, genClosed, deltaText, toolOrder, lastTool>>
  /\ UNCHANGED <<rvars, cvars, fvars, hvars, nvars, kvars, gvars>>

\* the generator's catch block: what it yields before it returns
CatchBlock(chunk) ==
  /\ phase = "streaming"
  /\ pending = <<>>
  /\ ~genClosed
  /\ pending' = <<chunk>>
  /\ genClosed' = TRUE
  /\ parsedDelta' = <<>>
  /\ UNCHANGED <<messages, isLoading, phase, assistantMsg, firstTokenReceived,
                 eventsRead, clock, recvContent, recvReasoning, aborted,
                 deltaText, toolOrder, lastTool>>
  /\ UNCHANGED <<rvars, cvars, fvars, hvars, nvars, kvars, gvars>>

\* fetch or reader.read() rejects with an AbortError
ReadAborted == aborted /\ CatchBlock(CanceledChunk)

\* the request fails, the status is not ok, or reading the body fails
ReadFailed == ~aborted /\ CatchBlock(CriticalErrorChunk)

\* the stream is exhausted: the finally block
StreamEnd ==
  /\ phase = "streaming"
  /\ pending = <<>>
  /\ genClosed \/ ~aborted
  /\ LET done ==
           updateAssistantMessage(messages, assistantMsg,
             [complete |-> TRUE,
              completionTime |-> clock,
              reasoningDuration |->
                IF assistantMsg.reasoningStartTime # NoTime
                THEN (IF assistantMsg.reasoningEndTime # NoTime
                      THEN assistantMsg.reasoningEndTime
                           - assistantMsg.reasoningStartTime
                      ELSE clock - assistantMsg.reasoningStartTime)
                ELSE NoDuration])
     IN messages' =
          IF assistantMsg.complete /\ assistantMsg.content = <<>>
             /\ assistantMsg.errorDetails
          THEN updateAssistantMessage(done, assistantMsg,
                                      [content |-> <<"[ERROR]">>])
          ELSE done
  /\ isLoading' = FALSE
  /\ phase' = "done"
  /\ parsedDelta' = <<>>
  /\ UNCHANGED <<assistantMsg, firstTokenReceived, pending, eventsRead, clock,
                 recvContent, recvReasoning, aborted, genClosed, deltaText,
                 toolOrder, lastTool>>
  /\ UNCHANGED <<rvars, cvars, fvars, hvars, nvars, kvars, gvars>>

\* newConversation: the message list is emptied, also while a stream runs
NewConversation ==
  /\ messages # <<>>
  /\ messages' = <<>>
  /\ UNCHANGED <<isLoading, phase, assistantMsg, firstTokenReceived, pending,
                 eventsRead, clock, recvContent, recvReasoning, parsedDelta,
                 aborted, genClosed, deltaText, toolOrder, lastTool>>
  /\ UNCHANGED <<rvars, cvars, fvars, hvars, nvars, kvars, gvars>>

NextStream ==
  \/ SendMessage
  \/ ReadEvent
  \/ ProcessChunk
  \/ StreamEnd
  \/ NewConversation

\* a stream that can also report an error, fail and be aborted
NextAbort ==
  \/ NextStream
  \/ ReadErrorEvent
  \/ Abort
  \/ ReadAborted
  \/ ReadFailed

\* ------------------------------------------------ the citation resolver
\* Message texts with citations are sequences of tokens: letters, newlines,
\* an opening and a closing citation bracket, digits, and the rest of a
\* marker's payload, "+L1-L3" for the dagger and the line range.
OpenBr == "[["
CloseBr == "]]"
Dagger == "+L1-L3"
CiteDigits == {"0", "1"}

MaxPieces == 2   \* pieces a message text is made of
MaxCalls == 2    \* calls of processCitationsInPlace on one subtree

Marker(digits) == <<OpenBr>> \o digits \o <<Dagger, CloseBr>>

\* plain text, a paragraph, a marker for tool 0 and one for tool 1, and
\* brackets that hold no line range
Pieces ==
  {<<"a">>, <<"a", NL, NL>>, Marker(<<"0">>), Marker(<<"0", "1">>),
   <<OpenBr, "1", CloseBr>>}

RECURSIVE CiteTextsOf(_)
CiteTextsOf(n) ==
  IF n = 0 THEN {<<>>}
  ELSE {t \o q : t \in CiteTextsOf(n - 1), q \in Pieces}
CiteTexts == UNION {CiteTextsOf(n) : n \in 0..MaxPieces}

\* (\d+): the end of the run of digits that starts at s[i]; i - 1 if none
RECURSIVE DigitsEnd(_, _)
DigitsEnd(s, i) ==
  IF i <= Len(s) /\ s[i] \in CiteDigits THEN DigitsEnd(s, i + 1) ELSE i - 1

\* parseInt of a run of digits
RECURSIVE ParseInt(_)
ParseInt(digits) ==
  IF digits = <<>> THEN 0
  ELSE 10 * ParseInt(SubSeq(digits, 1, Len(digits) - 1))
       + (IF digits[Len(digits)] = "1" THEN 1 ELSE 0)

\* citationPattern at position i: the position of the closing bracket, or 0
CitationMatch(s, i) ==
  IF s[i] # OpenBr THEN 0
  ELSE LET e == DigitsEnd(s, i + 1)
       IN IF e >= i + 1 /\ e + 2 <= Len(s)
             /\ s[e + 1] = Dagger /\ s[e + 2] = CloseBr
          THEN e + 2 ELSE 0

\* the anchor the text rule writes for one match
CitationAnchor(citationContent) ==
  <<"<a">> \o citationContent \o <<">", OpenBr>> \o citationContent
    \o <<CloseBr, "</a>">>

\* token.content.replace(citationPattern, ...)
RECURSIVE CitationReplace(_, _)
CitationReplace(s, i) ==
  IF i > Len(s) THEN <<>>
  ELSE LET close == CitationMatch(s, i)
       IN IF close # 0
          THEN CitationAnchor(SubSeq(s, i + 1, close - 1))
                 \o CitationReplace(s, close + 1)
          ELSE <<s[i]>> \o CitationReplace(s, i + 1)

\* md.render with the citation plugin: the text rule rewrites the markers
\* of the text tokens, which lie inside the paragraphs
markdownItCitation(html) ==
  IF \E i \in 1..Len(html) : html[i] = OpenBr
  THEN CitationReplace(html, 1)
  ELSE html

\* DOM nodes of a rendered message: text nodes and citation anchors
TextNode(text) ==
  [marker |-> FALSE, content |-> <<>>, href |-> <<>>, onclick |-> FALSE,
   span |-> FALSE, text |-> text]
MarkerNode(citationContent, inner) ==
  [marker |-> TRUE, content |-> citationContent, href |-> <<"#">>,
   onclick |-> TRUE, span |-> FALSE, text |-> inner]

\* the first position from i on that holds tok
RECURSIVE IndexFrom(_, _, _)
IndexFrom(s, i, tok) == IF s[i] = tok THEN i ELSE IndexFrom(s, i + 1, tok)

Flush(cur, kids) == IF cur = <<>> THEN kids ELSE Append(kids, TextNode(cur))

\* tempDiv.innerHTML = html: paragraphs with their children, and the text
\* between paragraphs
RECURSIVE ParseCitationHtml(_, _, _, _, _, _)
ParseCitationHtml(html, i, inP, cur, kids, acc) ==
  IF i > Len(html)
  THEN IF cur = <<>> THEN acc
       ELSE Append(acc, [tag |-> "#text", kids |-> <<TextNode(cur)>>])
  ELSE IF html[i] = "<p>"
  THEN ParseCitationHtml(html, i + 1, TRUE, <<>>, <<>>,
         IF cur = <<>> THEN acc
         ELSE Append(acc, [tag |-> "#text", kids |-> <<TextNode(cur)>>]))
  ELSE IF html[i] = "</p>"
  THEN ParseCitationHtml(html, i + 1, FALSE, <<>>, <<>>,
         Append(acc, [tag |-> "p", kids |-> Flush(cur, kids)]))
  ELSE IF html[i] = "<a"
  THEN LET gt == IndexFrom(html, i, ">")
           end == IndexFrom(html, gt, "</a>")
       IN ParseCitationHtml(html, end + 1, inP, <<>>,
            Append(Flush(cur, kids),
                   MarkerNode(SubSeq(html, i + 1, gt - 1),
                              SubSeq(html, gt + 1, end - 1))),
            acc)
  ELSE ParseCitationHtml(html, i + 1, inP, Append(cur, html[i]), kids, acc)

\* a reference that may be null: the container element, the tool list
Null == [present |-> FALSE, value |-> <<>>]
Ref(v) == [present |-> TRUE, value |-> v]

\* Tool outputs are sequences of tokens: the "L1: URL:" prefix, the scheme,
\* "www.", a letter, a slash and a space.  In ToolOutputs the prefix and the
\* scheme always start a word, and every URL is shorter than 30 characters.
UrlPrefix == "L1:URL:"
Scheme == "https://"
Www == "www."
Slash == "/"
Sp == " "

ToolOutputs ==
  {<<>>, <<"a">>,
   <<Scheme, "a", Sp, UrlPrefix, Sp, Scheme, Www, "a", Slash, "a">>,
   <<Scheme, "a", Www, "a">>}

CiteTools == {Tool(i, o) : i \in ToolIndexes, o \in ToolOutputs}

\* a tool list holds at most as many records as there are tool indexes
MaxTools == Cardinality(ToolIndexes)

RECURSIVE CiteToolListsOf(_)
CiteToolListsOf(n) ==
  IF n = 0 THEN {<<>>}
  ELSE {Append(l, t) : l \in CiteToolListsOf(n - 1), t \in CiteTools}
CiteToolLists == UNION {CiteToolListsOf(n) : n \in 0..MaxTools}

\* \s*: the first position from i on that holds no space
RECURSIVE SpacesEnd(_, _)
SpacesEnd(s, i) ==
  IF i <= Len(s) /\ s[i] = Sp THEN SpacesEnd(s, i + 1) ELSE i

\* [^\s"<>]+: the last position of the run without space that starts at i
RECURSIVE NonSpaceEnd(_, _)
NonSpaceEnd(s, i) ==
  IF i + 1 <= Len(s) /\ s[i + 1] # Sp THEN NonSpaceEnd(s, i + 1) ELSE i

\* https?:\/\/[^\s"<>]+ matches at position j
UrlAt(s, j) == s[j] = Scheme /\ j + 1 <= Len(s) /\ s[j + 1] # Sp

\* output.match(/L1:\s*URL:\s*(https?:\/\/[^\s"<>]+)/): the URL, <<>> if none
L1Url(s) ==
  LET at == {i \in 1..Len(s) :
               /\ s[i] = UrlPrefix
               /\ SpacesEnd(s, i + 1) <= Len(s)
               /\ UrlAt(s, SpacesEnd(s, i + 1))}
  IN IF at = {} THEN <<>>
     ELSE LET i == CHOOSE i \in at : \A k \in at : i <= k
              j == SpacesEnd(s, i + 1)
          IN SubSeq(s, j, NonSpaceEnd(s, j + 1))

\* s.match(/https?:\/\/[^\s"<>]+/): the first URL, <<>> if none
BareUrl(s) ==
  LET at == {j \in 1..Len(s) : UrlAt(s, j)}
  IN IF at = {} THEN <<>>
     ELSE LET j == CHOOSE j \in at : \A k \in at : j <= k
          IN SubSeq(s, j, NonSpaceEnd(s, j + 1))

RECURSIVE SkipSlashes(_, _)
SkipSlashes(s, i) ==
  IF i <= Len(s) /\ s[i] = Slash THEN SkipSlashes(s, i + 1) ELSE i

RECURSIVE HostEnd(_, _)
HostEnd(s, i) ==
  IF i + 1 <= Len(s) /\ s[i + 1] # Slash THEN HostEnd(s, i + 1) ELSE i

\* new URL(url).hostname; <<>> when the constructor throws (no host)
UrlHostname(url) ==
  LET h == SkipSlashes(url, 2)
  IN IF h > Len(url) THEN <<>> ELSE SubSeq(url, h, HostEnd(url, h))

\* hostname.replace("www.", ""): the first occurrence is removed
ReplaceWww(hostname) ==
  LET at == {i \in 1..Len(hostname) : hostname[i] = Www}
  IN IF at = {} THEN hostname
     ELSE LET i == CHOOSE i \in at : \A k \in at : i <= k
          IN SubSeq(hostname, 1, i - 1) \o SubSeq(hostname, i + 1, Len(hostname))

NoIndex == -1   \* citationIndex: null

\* citationContent.match(/^(\d+)†/) and parseInt
CitationIndex(citationContent) ==
  LET e == DigitsEnd(citationContent, 1)
  IN IF e >= 1 /\ e + 1 <= Len(citationContent)
        /\ citationContent[e + 1] = Dagger
     THEN ParseInt(SubSeq(citationContent, 1, e))
     ELSE NoIndex

\* executedTools.find(tool => tool.index === citationIndex && tool.output):
\* the output of the record found, <<>> if there is none
FoundOutput(executedTools, citationIndex) ==
  LET hit == {i \in 1..Len(executedTools) :
                /\ executedTools[i].index = citationIndex
                /\ executedTools[i].output # <<>>}
  IN IF hit = {} THEN <<>>
     ELSE executedTools[CHOOSE i \in hit : \A k \in hit : i <= k].output

\* faulty variant: the first bare URL of the output is taken before the
\* URL of the L1 line
CitationUrlBareFirst(citationContent, executedTools) ==
  LET citationIndex == CitationIndex(citationContent)
      output == IF citationIndex # NoIndex /\ Len(executedTools) > 0
                THEN FoundOutput(executedTools, citationIndex)
                ELSE <<>>
      fromTool == IF output = <<>> THEN <<>>
                  ELSE IF BareUrl(output) # <<>> THEN BareUrl(output)
                  ELSE L1Url(output)
  IN IF fromTool # <<>> THEN fromTool ELSE BareUrl(citationContent)

\* let url = ... : lines 84-113; <<>> stands for null
CitationUrl(citationContent, executedTools) ==
  LET citationIndex == CitationIndex(citationContent)
      output == IF citationIndex # NoIndex /\ Len(executedTools) > 0
                THEN FoundOutput(executedTools, citationIndex)
                ELSE <<>>
      fromTool == IF output = <<>> THEN <<>>
                  ELSE IF L1Url(output) # <<>> THEN L1Url(output)
                  ELSE BareUrl(output)
  IN IF fromTool # <<>> THEN fromTool ELSE BareUrl(citationContent)

\* let displayText = ... : lines 116-125
DisplayText(citationContent, url) ==
  IF url = <<>> THEN citationContent
  ELSE IF UrlHostname(url) # <<>> THEN ReplaceWww(UrlHostname(url))
  ELSE url

\* faulty variant: the display text is added to what the marker shows
ResolveMarkerAppend(marker, executedTools) ==
  LET url == CitationUrl(marker.content, executedTools)
  IN [marker EXCEPT
        !.text = @ \o DisplayText(marker.content, url),
        !.span = TRUE,
        !.href = IF url # <<>> THEN url ELSE @,
        !.onclick = IF url # <<>> THEN FALSE ELSE @]

\* the body of citationMarkers.forEach
ResolveMarker(marker, executedTools) ==
  IF marker.content = <<>> THEN marker
  ELSE LET url == CitationUrl(marker.content, executedTools)
       IN [marker EXCEPT
             !.text = DisplayText(marker.content, url),
             !.span = TRUE,
             !.href = IF url # <<>> THEN url ELSE @,
             !.onclick = IF url # <<>> THEN FALSE ELSE @]

\* faulty variant: a paragraph is rebuilt from its markers alone
processCitationsInPlaceOnly(containerElement, executedTools) ==
  IF ~containerElement.present \/ ~executedTools.present
  THEN containerElement
  ELSE Ref([b \in 1..Len(containerElement.value) |->
              [containerElement.value[b] EXCEPT
                 !.kids = SelectSeq(
                   [k \in 1..Len(@) |->
                      ResolveMarker(@[k], executedTools.value)],
                   LAMBDA n : n.marker)]])

processCitationsInPlace(containerElement, executedTools) ==
  IF ~containerElement.present \/ ~executedTools.present
  THEN containerElement
  ELSE Ref([b \in 1..Len(containerElement.value) |->
              [containerElement.value[b] EXCEPT
                 !.kids = [k \in 1..Len(@) |->
                             IF @[k].marker
                             THEN ResolveMarker(@[k], executedTools.value)
                             ELSE @[k]]]])

CInit ==
  /\ citeText = <<>>
  /\ container = Null
  /\ lastTools = Null
  /\ calls = 0

\* md.render(content) and tempDiv.innerHTML = html, on a new tempDiv
RenderMessage ==
  /\ ~container.present
  /\ \E text \in CiteTexts :
       /\ citeText' = text
       /\ container' =
            Ref(ParseCitationHtml(markdownItCitation(mdRender(text)),
                                  1, FALSE, <<>>, <<>>, <<>>))
  /\ lastTools' = Null
  /\ calls' = 0
  /\ UNCHANGED <<rvars, svars, fvars, hvars, nvars, kvars, gvars>>

\* one call of processCitationsInPlace, with a tool list or without one
Resolve ==
  /\ calls < MaxCalls
  /\ \E executedTools \in {Null} \cup {Ref(l) : l \in CiteToolLists} :
       /\ container' = processCitationsInPlace(container, executedTools)
       /\ lastTools' = executedTools
  /\ calls' = calls + 1
  /\ UNCHANGED citeText
  /\ UNCHANGED <<rvars, svars, fvars, hvars, nvars, kvars, gvars>>

NextCite ==
  \/ RenderMessage
  \/ Resolve

\* ------------------------------- a response with citations and tools
\* faulty variant: only the first record of the tool list is looked at
renderMessageContentFirst(text, executedTools) ==
  processCitationsInPlace(
    Ref(ParseCitationHtml(markdownItCitation(mdRender(text)),
                          1, FALSE, <<>>, <<>>, <<>>)),
    Ref(IF executedTools = <<>> THEN <<>> ELSE <<Head(executedTools)>>))

\* renderMessageContent(message.content, message.executed_tools || []): what
\* the chat panel shows for a complete message (the subtree of tempDiv)
renderMessageContent(text, executedTools) ==
  processCitationsInPlace(
    Ref(ParseCitationHtml(markdownItCitation(mdRender(text)),
                          1, FALSE, <<>>, <<>>, <<>>)),
    Ref(executedTools))

\* the deltas of a response that cites tool results: a text piece or a
\* citation marker, with or without one tool record
CiteContents == {Absent, Present(<<"a">>), Present(Marker(<<"0">>))}
CiteToolUpdates ==
  {<<>>} \cup {<<Tool(i, o)>> : i \in ToolIndexes, o \in ToolOutputs \ {<<"a">>}}
CiteDeltas ==
  {[content |-> c, reasoning |-> Absent, hasTools |-> t # <<>>,
    executed_tools |-> t] : c \in CiteContents, t \in CiteToolUpdates}

\* the generator reads the next "data: " line of such a response
ReadCiteEvent ==
  /\ phase = "streaming"
  /\ pending = <<>>
  /\ eventsRead < MaxEvents
  /\ ~aborted
  /\ ~genClosed
  /\ \E delta \in CiteDeltas :
       /\ pending' = ChunksOfDelta(delta)
       /\ parsedDelta' = <<[content |-> delta.content,
                            reasoning |-> delta.reasoning]>>
       /\ deltaText' = IF delta.content.present
                       THEN deltaText \o delta.content.text
                       ELSE deltaText
  /\ eventsRead' = eventsRead + 1
  /\ UNCHANGED <<messages, isLoading, phase, assistantMsg, firstTokenReceived,
                 clock, recvContent, recvReasoning, aborted, genClosed,
                 toolOrder, lastTool>>
  /\ UNCHANGED <<rvars, cvars, fvars, hvars, nvars, kvars, gvars>>

NextTools ==
  \/ SendMessage
  \/ ReadCiteEvent
  \/ ProcessChunk
  \/ StreamEnd

\* ------------------------------------------- a render call that throws
MaxFailures == 1   \* updates in which md.render throws

\* processAppendedSuffix when the first call of md.render in it throws: the
\* state the exception leaves behind, and whether md.render was called at
\* all (renderBlockHtml does not call it for a blank block)
processAppendedSuffixThrows(st, suffix) ==
  IF suffix = <<>>
  THEN [st |-> st, threw |-> ~IsBlank(LastBlock(splitIntoBlocks(st.tail)))]
  ELSE LET previousTail == st.tail
           s1 == [st EXCEPT !.tail = st.tail \o suffix]
           blocks == splitIntoBlocks(s1.tail)
           completeBlocks == CompleteBlocksOf(blocks)
           previousBlocks == splitIntoBlocks(previousTail)
           previousCompleteCount ==
             IF Len(previousBlocks) > 1 THEN Len(previousBlocks) - 1 ELSE 0
           s2 == IF Len(completeBlocks) > previousCompleteCount
                 THEN [s1 EXCEPT !.count = Len(completeBlocks)]
                 ELSE s1
       IN IF \E i \in (previousCompleteCount + 1)..Len(completeBlocks) :
               ~IsBlank(completeBlocks[i])
          THEN [st |-> s1, threw |-> TRUE]
          ELSE [st |-> s2, threw |-> ~IsBlank(LastBlock(blocks))]

\* the transport appended a delta, and md.render throws while the watcher
\* callback handles it as an append: nothing catches the exception, so the
\* callback ends there, before prevContent = newContent
AppendUpdateThrows ==
  /\ mounted
  /\ ~isComplete
  /\ failures < MaxFailures
  /\ prevContent # <<>>
  /\ \E newContent \in Extensions(content) :
       LET thrown == processAppendedSuffixThrows(
                       Self, SliceFrom(newContent, Len(prevContent)))
       IN /\ StartsWith(newContent, prevContent)
          /\ thrown.threw
          /\ content' = newContent
          /\ Commit([thrown.st EXCEPT !.path = "failed"])
  /\ failures' = failures + 1
  /\ UNCHANGED <<isComplete, mounted, truncations, appendOnly>>
  /\ UNCHANGED <<svars, cvars, hvars, nvars, kvars, gvars>>

\* a stream whose text only grows, rendered by an engine that can throw
NextFail ==
  \/ WatchImmediate
  \/ AppendUpdate
  \/ AppendUpdateThrows
  \/ CompleteUpdate

FInit == failures = 0

\* ------------------------------------------------ the fence rule
\* The rule that renders a fenced code block; the renderer component and
\* the shared markdown module hold the same rule. Code is a sequence of
\* characters, HTML a sequence of tokens.
MaxCode == 3   \* longest code of a fenced block

CodeChars == {"a", "<", "&"}
RECURSIVE CodesOfLen(_)
CodesOfLen(n) ==
  IF n = 0 THEN {<<>>}
  ELSE {Append(c, ch) : c \in CodesOfLen(n - 1), ch \in CodeChars}
Codes == UNION {CodesOfLen(n) : n \in 0..MaxCode}

\* token.info after unescapeAll and trim, split at white space
Infos == {<<>>, <<"js">>, <<"js", "linenos">>, <<"zz">>}

\* hljs.getLanguage(lang) is defined for these names ("text" is an alias of
\* the plaintext language)
KnownLanguages == {"js", "text"}

\* md.utils.escapeHtml
RECURSIVE escapeHtml(_)
escapeHtml(str) ==
  IF str = <<>> THEN <<>>
  ELSE (IF Head(str) = "<" THEN <<"&lt;">>
        ELSE IF Head(str) = "&" THEN <<"&amp;">>
        ELSE <<Head(str)>>) \o escapeHtml(Tail(str))

\* hljs.highlight(code, { language, ignoreIllegals: true }).value, when it
\* returns: the escaped code inside a span of the language
hljsHighlight(code, lang) ==
  <<"<span class=\"hljs-" \o lang \o "\">">> \o escapeHtml(code) \o <<"</span>">>

\* the wrapper the rule returns around the code
CodeBlockWrapper(lang, highlightedCode) ==
  <<"<div class=\"code-block-wrapper\">", "<span class=\"code-language\">",
    lang, "</span>", "<pre><code class=\"hljs ", lang, "\">">>
    \o highlightedCode \o <<"</code></pre>", "</div>">>

Returned(html) == [threw |-> FALSE, html |-> html]
Thrown == [threw |-> TRUE, html |-> <<>>]
NotCalled == [threw |-> FALSE, html |-> <<"(not called)">>]

\* faulty variant: the call of hljs.highlight is not guarded by try/catch
fenceUnguarded(info, code, throws) ==
  LET langName == IF info # <<>> THEN info[1] ELSE ""
      lang == IF langName # "" THEN langName ELSE "text"
  IN IF lang \in KnownLanguages
     THEN (IF throws THEN Thrown
           ELSE Returned(CodeBlockWrapper(lang, hljsHighlight(code, lang))))
     ELSE Returned(CodeBlockWrapper(lang, escapeHtml(code)))

\* md.renderer.rules.fence
fence(info, code, throws) ==
  LET langName == IF info # <<>> THEN info[1] ELSE ""
      lang == IF langName # "" THEN langName ELSE "text"
      highlightedCode ==
        IF lang \in KnownLanguages
        THEN (IF throws THEN escapeHtml(code) ELSE hljsHighlight(code, lang))
        ELSE escapeHtml(code)
  IN Returned(CodeBlockWrapper(lang, highlightedCode))

HInit ==
  /\ tokenInfo = <<>>
  /\ tokenContent = <<>>
  /\ highlightThrows = FALSE
  /\ fenceResult = NotCalled

\* md.render reaches a fence token and calls the rule
RenderFence ==
  /\ \E info \in Infos, code \in Codes, throws \in BOOLEAN :
       /\ tokenInfo' = info
       /\ tokenContent' = code
       /\ highlightThrows' = throws
       /\ fenceResult' = fence(info, code, throws)
  /\ UNCHANGED <<rvars, svars, cvars, fvars, nvars, kvars, gvars>>

NextFence == RenderFence

\* ------------------------------------------------ the conversation manager
\* The message manager over several sendMessage calls: the message list, the
\* conversation store (createConversation, storeMessages, deleteConversation
\* on localforage), incognito mode and the memory of user facts. A response
\* is a sequence of text chunks here; what the chunk loop does with the
\* fields of a chunk is modelled in the response stream above.
MaxSends == 2    \* sendMessage calls that pass the guard
MaxChunks == 2   \* chunks of one response

NoConvo == 0     \* currConvo.value = ''

\* the texts typed into the message form
UserTexts == {<<>>, <<NL>>, <<"q">>}

\* addUserMessage and createAssistantMessage of the n-th accepted call
\* (generateId gives every message an id of its own)
UserMessageOf(n, text) ==
  [id |-> 2 * n - 1, role |-> "user", content |-> text, complete |-> TRUE]
AssistantMessageOf(n) ==
  [id |-> 2 * n, role |-> "assistant", reasoning |-> <<>>, content |-> <<>>,
   executed_tools |-> <<>>, complete |-> FALSE, tokenCount |-> 0]

\* plainMessages.map(...) of createConversation and storeMessages: the
\* fields a stored message keeps
RawMessage(msg) ==
  IF msg.role = "assistant"
  THEN [id |-> msg.id, role |-> msg.role, content |-> msg.content,
        complete |-> msg.complete, reasoning |-> msg.reasoning,
        executed_tools |-> msg.executed_tools]
  ELSE [id |-> msg.id, role |-> msg.role, content |-> msg.content,
        complete |-> msg.complete]
RawMessages(msgs) == [i \in 1..Len(msgs) |-> RawMessage(msgs[i])]

\* conv.messages.map(...) of changeConversation
LoadedMessages(msgs) ==
  [i \in 1..Len(msgs) |->
     IF msgs[i].role = "assistant"
     THEN Spread(msgs[i], [executed_tools |-> msgs[i].executed_tools])
     ELSE msgs[i]]

RemoveAt(seq, k) == SubSeq(seq, 1, k - 1) \o SubSeq(seq, k + 1, Len(seq))

\* generateSystemPrompt(usedTools, settings, memoryFacts): its sections
generateSystemPrompt(global_memory_enabled, facts) ==
  <<"CORE_IDENTITY">>
    \o (IF global_memory_enabled /\ Len(facts) > 0
        THEN <<"User Memory">> \o facts ELSE <<>>)
    \o <<"GUIDING_PRINCIPLES", "KNOWLEDGE_CUTOFF">>
    \o (IF global_memory_enabled THEN <<"MEMORY_AWARENESS">> ELSE <<>>)

\* what loadMemory can return after an updateMemory: the list saved, or
\* nothing once the key was removed
MemoryStates == {<<>>, <<"fact">>}

\* messages.value.filter(msg => msg.complete).map(...): the history
\* sendMessage hands to handleIncomingMessage
IsComplete(msg) == msg.complete
PlainMessage(msg) == [role |-> msg.role, content |-> msg.content]
HistoryOf(msgs) ==
  LET done == SelectSeq(msgs, IsComplete)
  IN [i \in 1..Len(done) |-> PlainMessage(done[i])]

\* requestBody.messages of handleIncomingMessage
RequestMessages(systemPrompt, plainMessages, query) ==
  <<[role |-> "system", content |-> systemPrompt]>>
    \o plainMessages
    \o <<[role |-> "user", content |-> query]>>

NoRequest ==
  [sent |-> FALSE, incognito |-> FALSE, systemPrompt |-> <<>>,
   messages |-> <<>>]

NInit ==
  /\ chatMessages = <<>>
  /\ sending = FALSE
  /\ isIncognito = FALSE
  /\ currConvo = NoConvo
  /\ conversations = <<>>
  /\ inFlight = <<>>
  /\ sendCount = 0
  /\ incognitoIds = {}
  /\ memoryEnabled = FALSE
  /\ memoryFacts = <<>>
  /\ memoryJobs = 0
  /\ lastRequest = NoRequest

\* sendMessage up to its first await: the guard, the two pushes, the start
\* of updateMemory and of createNewConversation (which copies the list at
\* once and stores the copy later)
sendMessage ==
  /\ sendCount < MaxSends
  /\ \E message \in UserTexts :
       /\ ~(IsBlank(message) \/ sending)
       /\ LET n == sendCount + 1
              pushed == chatMessages
                          \o <<UserMessageOf(n, message), AssistantMessageOf(n)>>
              creating == currConvo = NoConvo /\ ~isIncognito
          IN /\ chatMessages' = pushed
             /\ inFlight' = Append(inFlight,
                   [msg |-> AssistantMessageOf(n),
                    pc |-> IF creating THEN "creating" ELSE "ready",
                    chunks |-> 0,
                    message |-> message,
                    \* the conversation the message was sent in
                    convo |-> currConvo,
                    rawMessages |-> IF creating THEN RawMessages(pushed)
                                    ELSE <<>>])
             /\ incognitoIds' = IF isIncognito
                                THEN incognitoIds \cup {2 * n - 1, 2 * n}
                                ELSE incognitoIds
  /\ memoryJobs' = IF memoryEnabled /\ ~isIncognito
                   THEN memoryJobs + 1 ELSE memoryJobs
  /\ sending' = TRUE
  /\ sendCount' = sendCount + 1
  /\ UNCHANGED <<isIncognito, currConvo, conversations, memoryEnabled,
                 memoryFacts, lastRequest>>
  /\ UNCHANGED <<rvars, svars, cvars, fvars, hvars, kvars, gvars>>

\* createConversation stores the copy under a new id and returns the id;
\* sendMessage assigns it to currConvo and goes on
createConversation ==
  /\ \E k \in 1..Len(inFlight) :
       /\ inFlight[k].pc = "creating"
       /\ conversations' =
            Append(conversations,
                   [present |-> TRUE, messages |-> inFlight[k].rawMessages])
       /\ currConvo' = Len(conversations) + 1
       /\ inFlight' = [inFlight EXCEPT ![k].pc = "ready",
                                       ![k].convo = Len(conversations) + 1,
                                       ![k].rawMessages = <<>>]
  /\ UNCHANGED <<chatMessages, sending, isIncognito, sendCount, incognitoIds,
                 memoryEnabled, memoryFacts, memoryJobs, lastRequest>>
  /\ UNCHANGED <<rvars, svars, cvars, fvars, hvars, kvars, gvars>>

\* sendMessage after await nextTick(): the model lookup and, with a model,
\* the call of handleIncomingMessage, which loads the memory and builds
\* the request
startStream ==
  /\ \E k \in 1..Len(inFlight), modelSelected \in BOOLEAN :
       /\ inFlight[k].pc = "ready"
       /\ IF modelSelected
          THEN /\ inFlight' = [inFlight EXCEPT ![k].pc = "loop"]
               /\ lastRequest' =
                    [sent |-> TRUE,
                     \* was the message sent in incognito mode
                     incognito |-> inFlight[k].msg.id \in incognitoIds,
                     systemPrompt |->
                       generateSystemPrompt(
                         memoryEnabled,
                         IF memoryEnabled THEN memoryFacts ELSE <<>>),
                     messages |->
                       RequestMessages(
                         generateSystemPrompt(
                           memoryEnabled,
                           IF memoryEnabled THEN memoryFacts ELSE <<>>),
                         HistoryOf(chatMessages),
                         inFlight[k].message)]
               /\ UNCHANGED <<chatMessages, sending>>
          ELSE /\ chatMessages' =
                    updateAssistantMessage(
                      chatMessages, inFlight[k].msg,
                      [content |-> <<"Error: No AI model selected.">>,
                       complete |-> TRUE])
               /\ sending' = FALSE
               /\ inFlight' = RemoveAt(inFlight, k)
               /\ UNCHANGED lastRequest
  /\ UNCHANGED <<isIncognito, currConvo, conversations, sendCount,
                 incognitoIds, memoryEnabled, memoryFacts, memoryJobs>>
  /\ UNCHANGED <<rvars, svars, cvars, fvars, hvars, kvars, gvars>>

\* one round of the chunk loop for a text chunk
streamChunk ==
  /\ \E k \in 1..Len(inFlight) :
       /\ inFlight[k].pc = "loop"
       /\ inFlight[k].chunks < MaxChunks
       /\ LET updatedMsg == [inFlight[k].msg EXCEPT
                               !.content = @ \o <<"a">>,
                               !.tokenCount = @ + 1]
          IN /\ chatMessages' = SpliceLast(chatMessages, updatedMsg)
             /\ inFlight' = [inFlight EXCEPT ![k].msg = updatedMsg,
                                             ![k].chunks = @ + 1]
  /\ UNCHANGED <<sending, isIncognito, currConvo, conversations, sendCount,
                 incognitoIds, memoryEnabled, memoryFacts, memoryJobs,
                 lastRequest>>
  /\ UNCHANGED <<rvars, svars, cvars, fvars, hvars, kvars, gvars>>

\* the finally block: the response ended, failed or was aborted
streamFinally ==
  /\ \E k \in 1..Len(inFlight) :
       /\ inFlight[k].pc = "loop"
       /\ LET done == updateAssistantMessage(chatMessages, inFlight[k].msg,
                                             [complete |-> TRUE])
          IN /\ chatMessages' = done
             \* storeMessages returns at once when the store has no
             \* conversation with the id
             /\ conversations' =
                  IF ~isIncognito /\ currConvo # NoConvo
                     /\ conversations[currConvo].present
                  THEN [conversations EXCEPT
                          ![currConvo].messages = RawMessages(done)]
                  ELSE conversations
       /\ inFlight' = RemoveAt(inFlight, k)
  /\ sending' = FALSE
  /\ UNCHANGED <<isIncognito, currConvo, sendCount, incognitoIds,
                 memoryEnabled, memoryFacts, memoryJobs, lastRequest>>
  /\ UNCHANGED <<rvars, svars, cvars, fvars, hvars, kvars, gvars>>

\* changeConversation(id), for a conversation the sidebar lists
changeConversation ==
  /\ ~isIncognito
  /\ \E id \in 1..Len(conversations) :
       /\ conversations[id].present
       /\ chatMessages' = LoadedMessages(conversations[id].messages)
       /\ currConvo' = id
  /\ UNCHANGED <<sending, isIncognito, conversations, inFlight, sendCount,
                 incognitoIds, memoryEnabled, memoryFacts, memoryJobs,
                 lastRequest>>
  /\ UNCHANGED <<rvars, svars, cvars, fvars, hvars, kvars, gvars>>

\* deleteConversation(id), for a conversation the sidebar lists
deleteConversation ==
  /\ ~isIncognito
  /\ \E id \in 1..Len(conversations) :
       /\ conversations[id].present
       /\ conversations' = [conversations EXCEPT ![id].present = FALSE,
                                                 ![id].messages = <<>>]
       /\ IF currConvo = id
          THEN currConvo' = NoConvo /\ chatMessages' = <<>>
          ELSE UNCHANGED <<currConvo, chatMessages>>
  /\ UNCHANGED <<sending, isIncognito, inFlight, sendCount, incognitoIds,
                 memoryEnabled, memoryFacts, memoryJobs, lastRequest>>
  /\ UNCHANGED <<rvars, svars, cvars, fvars, hvars, kvars, gvars>>

newConversation ==
  /\ currConvo' = NoConvo
  /\ chatMessages' = <<>>
  /\ isIncognito' = FALSE
  /\ UNCHANGED <<sending, conversations, inFlight, sendCount, incognitoIds,
                 memoryEnabled, memoryFacts, memoryJobs, lastRequest>>
  /\ UNCHANGED <<rvars, svars, cvars, fvars, hvars, kvars, gvars>>

\* toggleIncognito; the top bar shows its button only while there is no
\* conversation and no message
toggleIncognito ==
  /\ currConvo = NoConvo
  /\ chatMessages = <<>>
  /\ isIncognito' = ~isIncognito
  /\ UNCHANGED <<chatMessages, sending, currConvo, conversations, inFlight,
                 sendCount, incognitoIds, memoryEnabled, memoryFacts,
                 memoryJobs, lastRequest>>
  /\ UNCHANGED <<rvars, svars, cvars, fvars, hvars, kvars, gvars>>

\* the user switches the memory setting
setGlobalMemory ==
  /\ memoryEnabled' = ~memoryEnabled
  /\ UNCHANGED <<chatMessages, sending, isIncognito, currConvo, conversations,
                 inFlight, sendCount, incognitoIds, memoryFacts, memoryJobs,
                 lastRequest>>
  /\ UNCHANGED <<rvars, svars, cvars, fvars, hvars, kvars, gvars>>

\* an updateMemory call finishes: it saved the facts it ended with, or, with
\* no fact or after an error, nothing
updateMemory ==
  /\ memoryJobs > 0
  /\ memoryJobs' = memoryJobs - 1
  /\ \E facts \in MemoryStates \cup {memoryFacts} : memoryFacts' = facts
  /\ UNCHANGED <<chatMessages, sending, isIncognito, currConvo, conversations,
                 inFlight, sendCount, incognitoIds, memoryEnabled, lastRequest>>
  /\ UNCHANGED <<rvars, svars, cvars, fvars, hvars, kvars, gvars>>

NextConvo ==
  \/ sendMessage
  \/ createConversation
  \/ startStream
  \/ streamChunk
  \/ streamFinally
  \/ changeConversation
  \/ deleteConversation
  \/ newConversation
  \/ toggleIncognito

\* sends in and out of incognito mode, with the memory setting and the
\* memory updates
NextMemory ==
  \/ sendMessage
  \/ createConversation
  \/ startStream
  \/ streamChunk
  \/ streamFinally
  \/ newConversation
  \/ toggleIncognito
  \/ setGlobalMemory
  \/ updateMemory

\* ------------------------------------------------ the conversation store
\* createConversation, storeMessages and deleteConversation, one localforage
\* operation per step: every await of a getItem, setItem or removeItem is a
\* point where a step of another call can come in between.
MaxStoreCalls == 3   \* calls of the three functions

\* conversations that can be created (crypto.randomUUID() gives each
\* createConversation an id of its own)
MaxConvs == 2
ConvIds == 1..MaxConvs

\* metadata.filter((m) => m.id !== conversationId)
IsNotId(conversationId) == [id \in ConvIds |-> id # conversationId]
FilterOutId(list, conversationId) ==
  LET keep == IsNotId(conversationId)
      Keep(id) == keep[id]
  IN SelectSeq(list, Keep)

\* storeMessages: filter out the entry of the id, then push the new one
UpdatedMetadata(list, conversationId) ==
  Append(FilterOutId(list, conversationId), conversationId)

ListedIds == {metadata[i] : i \in 1..Len(metadata)}

StoreCall(op, id, pc) == [op |-> op, id |-> id, pc |-> pc, local |-> <<>>]

KInit ==
  /\ convStore = {}
  /\ metadata = <<>>
  /\ storeCalls = <<>>
  /\ storeOps = 0
  /\ createdConvs = 0
  /\ deletedConvs = {}

\* createConversation is called: the id is drawn, the title is fetched.
\* sendMessage awaits the call while isLoading is true, so no two
\* createConversation calls overlap.
callCreateConversation ==
  /\ storeOps < MaxStoreCalls
  /\ createdConvs < MaxConvs
  /\ \A k \in 1..Len(storeCalls) : storeCalls[k].op # "create"
  /\ createdConvs' = createdConvs + 1
  /\ storeCalls' =
       Append(storeCalls, StoreCall("create", createdConvs + 1, "setItem"))
  /\ storeOps' = storeOps + 1
  /\ UNCHANGED <<convStore, metadata, deletedConvs>>
  /\ UNCHANGED <<rvars, svars, cvars, fvars, hvars, nvars, gvars>>

\* storeMessages(conversationId, ...) is called, for an id sendMessage can
\* hold in currConvo: one that a createConversation has returned
callStoreMessages ==
  /\ storeOps < MaxStoreCalls
  /\ \E id \in 1..createdConvs :
       /\ \A k \in 1..Len(storeCalls) :
            ~(storeCalls[k].op = "create" /\ storeCalls[k].id = id)
       /\ storeCalls' = Append(storeCalls, StoreCall("store", id, "getItem"))
  /\ storeOps' = storeOps + 1
  /\ UNCHANGED <<convStore, metadata, createdConvs, deletedConvs>>
  /\ UNCHANGED <<rvars, svars, cvars, fvars, hvars, nvars, gvars>>

\* deleteConversation(conversationId) is called, for a conversation of the
\* sidebar, which lists the metadata
callDeleteConversation ==
  /\ storeOps < MaxStoreCalls
  /\ \E id \in ListedIds :
       storeCalls' = Append(storeCalls, StoreCall("delete", id, "removeItem"))
  /\ storeOps' = storeOps + 1
  /\ UNCHANGED <<convStore, metadata, createdConvs, deletedConvs>>
  /\ UNCHANGED <<rvars, svars, cvars, fvars, hvars, nvars, gvars>>

\* storeMessages: const data = await localforage.getItem(...);
\* if (!data) return;
getConversationItem ==
  /\ \E k \in 1..Len(storeCalls) :
       /\ storeCalls[k].pc = "getItem"
       /\ storeCalls' = IF storeCalls[k].id \in convStore
                        THEN [storeCalls EXCEPT ![k].pc = "setItem"]
                        ELSE RemoveAt(storeCalls, k)
  /\ UNCHANGED <<convStore, metadata, storeOps, createdConvs, deletedConvs>>
  /\ UNCHANGED <<rvars, svars, cvars, fvars, hvars, nvars, gvars>>

\* createConversation and storeMessages:
\* await localforage.setItem(`conversation_${conversationId}`, ...)
setConversationItem ==
  /\ \E k \in 1..Len(storeCalls) :
       /\ storeCalls[k].pc = "setItem"
       /\ convStore' = convStore \cup {storeCalls[k].id}
       /\ storeCalls' = [storeCalls EXCEPT ![k].pc = "getMetadata"]
  /\ UNCHANGED <<metadata, storeOps, createdConvs, deletedConvs>>
  /\ UNCHANGED <<rvars, svars, cvars, fvars, hvars, nvars, gvars>>

\* deleteConversation:
\* await localforage.removeItem(`conversation_${conversationId}`)
removeConversationItem ==
  /\ \E k \in 1..Len(storeCalls) :
       /\ storeCalls[k].pc = "removeItem"
       /\ convStore' = convStore \ {storeCalls[k].id}
       /\ storeCalls' = [storeCalls EXCEPT ![k].pc = "getMetadata"]
  /\ UNCHANGED <<metadata, storeOps, createdConvs, deletedConvs>>
  /\ UNCHANGED <<rvars, svars, cvars, fvars, hvars, nvars, gvars>>

\* all three: (await localforage.getItem("conversations_metadata")) || []
getMetadata ==
  /\ \E k \in 1..Len(storeCalls) :
       /\ storeCalls[k].pc = "getMetadata"
       /\ storeCalls' = [storeCalls EXCEPT ![k].pc = "setMetadata",
                                           ![k].local = metadata]
  /\ UNCHANGED <<convStore, metadata, storeOps, createdConvs, deletedConvs>>
  /\ UNCHANGED <<rvars, svars, cvars, fvars, hvars, nvars, gvars>>

\* all three: await localforage.setItem("conversations_metadata", ...),
\* after which the call returns
setMetadata ==
  /\ \E k \in 1..Len(storeCalls) :
       LET call == storeCalls[k]
       IN /\ call.pc = "setMetadata"
          /\ metadata' =
               CASE call.op = "create" -> Append(call.local, call.id)
                 [] call.op = "store" -> UpdatedMetadata(call.local, call.id)
                 [] call.op = "delete" -> FilterOutId(call.local, call.id)
          /\ deletedConvs' = IF call.op = "delete"
                             THEN deletedConvs \cup {call.id}
                             ELSE deletedConvs
          /\ storeCalls' = RemoveAt(storeCalls, k)
  /\ UNCHANGED <<convStore, storeOps, createdConvs>>
  /\ UNCHANGED <<rvars, svars, cvars, fvars, hvars, nvars, gvars>>

NextStore ==
  \/ callCreateConversation
  \/ callStoreMessages
  \/ callDeleteConversation
  \/ getConversationItem
  \/ setConversationItem
  \/ removeConversationItem
  \/ getMetadata
  \/ setMetadata

\* ------------------------------------------------------ the memory store
\* updateMemory, deleteMemory and clearAllMemory on the entry
\* global_chatbot_memory. A stored fact is { fact, timestamp }; the time is
\* the number of calls started so far.
MaxMemoryCalls == 3   \* calls of the three functions

\* the fact strings a reply of the memory model can hold, and what
\* String.prototype.trim makes of them
FactTexts == {"a", "b", " a", " "}
Trim(str) == CASE str = " a" -> "a" [] str = " " -> "" [] OTHER -> str
\* the facts deleteMemory is called with (those the settings list shows)
StoredFactTexts == {"a", "b"}

Item(fact, now) == [fact |-> fact, timestamp |-> now]

\* a field of memory_operations.facts: missing, an array of the expected
\* entries, or some other value with a length (a string, say)
MissingField == [kind |-> "missing", value |-> <<>>]
ValidField(list) == [kind |-> "valid", value |-> list]
OtherField == [kind |-> "other", value |-> <<>>]

Mod(old, new) == [old |-> old, new |-> new]

\* what comes back from the completion API: the request failed, the reply
\* is not JSON, or it is a JSON object with these fields
MemoryReply(operation, hasFacts, add, remove, modify) ==
  [status |-> "json", operation |-> operation, hasFacts |-> hasFacts,
   add |-> add, remove |-> remove, modify |-> modify]
FailedReply ==
  [status |-> "failed", operation |-> "", hasFacts |-> FALSE,
   add |-> MissingField, remove |-> MissingField, modify |-> MissingField]
NotJsonReply == [FailedReply EXCEPT !.status = "not_json"]
NoFacts(operation) ==
  MemoryReply(operation, FALSE, MissingField, MissingField, MissingField)

MemoryReplies ==
  {FailedReply, NotJsonReply, NoFacts(""), NoFacts("replace"),
   NoFacts("none"), NoFacts("clear"), NoFacts("add")}
  \cup {MemoryReply("add", TRUE, ValidField(l), MissingField, MissingField) :
          l \in {<<"a">>, <<"b">>, <<" a">>, <<" ">>, <<"b", "b">>}}
  \cup {MemoryReply("add", TRUE, OtherField, MissingField, MissingField),
        MemoryReply("add", TRUE, ValidField(<<"b">>), OtherField,
                    MissingField),
        MemoryReply("add", TRUE, ValidField(<<"b">>), ValidField(<<"a">>),
                    MissingField),
        MemoryReply("remove", TRUE, MissingField, MissingField, MissingField),
        MemoryReply("modify", TRUE, MissingField, MissingField, OtherField)}
  \cup {MemoryReply("remove", TRUE, MissingField, ValidField(l),
                    MissingField) : l \in {<<"a">>, <<" a">>, <<"b">>}}
  \cup {MemoryReply("modify", TRUE, MissingField, MissingField,
                    ValidField(<<m>>)) :
          m \in {Mod("a", "b"), Mod("b", "a"), Mod("a", " ")}}

validOperations == {"add", "remove", "modify", "clear", "none"}
FactOperations == {"add", "remove", "modify"}

\* the field the operation of a reply is about
OwnField(reply) ==
  CASE reply.operation = "add" -> reply.add
    [] reply.operation = "remove" -> reply.remove
    [] reply.operation = "modify" -> reply.modify
    [] OTHER -> MissingField

\* faulty variant: the operation name is not checked
ValidationPassesAnyName(reply) ==
  /\ reply.status = "json"
  /\ reply.operation # ""
  /\ reply.operation \in FactOperations =>
       reply.hasFacts /\ OwnField(reply).kind = "valid"

\* the checks between the request and the switch: every one that fails
\* throws
ValidationPasses(reply) ==
  /\ reply.status = "json"
  /\ reply.operation # ""
  /\ reply.operation \in validOperations
  /\ reply.operation \in FactOperations =>
       reply.hasFacts /\ OwnField(reply).kind = "valid"

\* a field is processed when the operation is about it or its length is
\* above 0
Processed(reply, name, field) ==
  reply.operation = name \/ field.kind = "other" \/ Len(field.value) > 0

\* the switch throws a TypeError when it processes a field that is no array
ApplyThrows(reply) ==
  /\ reply.operation \in FactOperations
  /\ \/ Processed(reply, "add", reply.add) /\ reply.add.kind = "other"
     \/ Processed(reply, "remove", reply.remove)
          /\ reply.remove.kind = "other"
     \/ Processed(reply, "modify", reply.modify)
          /\ reply.modify.kind = "other"

HasFact(arr, fact) == \E i \in 1..Len(arr) : arr[i].fact = fact

\* facts_to_add.forEach(...)
RECURSIVE AddFacts(_, _, _)
AddFacts(arr, list, now) ==
  IF list = <<>> THEN arr
  ELSE LET trimmed_fact == Trim(Head(list))
       IN AddFacts(IF trimmed_fact # "" /\ ~HasFact(arr, trimmed_fact)
                   THEN Append(arr, Item(trimmed_fact, now))
                   ELSE arr,
                   Tail(list), now)

\* updated_memory_array.filter(... !== fact)
WithoutFact(arr, fact) ==
  LET Other(item) == item.fact # fact
  IN SelectSeq(arr, Other)

\* facts_to_remove.forEach(...)
RECURSIVE RemoveFacts(_, _)
RemoveFacts(arr, list) ==
  IF list = <<>> THEN arr
  ELSE RemoveFacts(WithoutFact(arr, Trim(Head(list))), Tail(list))

\* updated_memory_array.findIndex(...), 0 when there is none
FactIndex(arr, fact) ==
  IF HasFact(arr, fact)
  THEN CHOOSE i \in 1..Len(arr) :
         /\ arr[i].fact = fact
         /\ \A j \in 1..(i - 1) : arr[j].fact # fact
  ELSE 0

\* modifications.forEach(...)
RECURSIVE ModifyFacts(_, _, _)
ModifyFacts(arr, mods, now) ==
  IF mods = <<>> THEN arr
  ELSE LET old_fact == Trim(Head(mods).old)
           new_fact == Trim(Head(mods).new)
           index == FactIndex(arr, old_fact)
       IN ModifyFacts(IF old_fact # "" /\ new_fact # "" /\ index # 0
                      THEN [arr EXCEPT ![index] = Item(new_fact, now)]
                      ELSE arr,
                      Tail(mods), now)

\* the switch on memory_operations.operation
ApplyOperation(arr, reply, now) ==
  CASE reply.operation = "clear" -> <<>>
    [] reply.operation \in FactOperations ->
         LET added == IF Processed(reply, "add", reply.add)
                      THEN AddFacts(arr, reply.add.value, now) ELSE arr
             removed == IF Processed(reply, "remove", reply.remove)
                        THEN RemoveFacts(added, reply.remove.value)
                        ELSE added
         IN IF Processed(reply, "modify", reply.modify)
            THEN ModifyFacts(removed, reply.modify.value, now)
            ELSE removed
    [] OTHER -> arr

\* faulty variant: the list is saved as the switch left it
EnsureUniqueNot(arr) == arr

\* the factMap pass: one entry per fact, at the place of its first
\* occurrence and with the value of its last one; empty facts dropped
EnsureUnique(arr) ==
  LET First(i) == \A j \in 1..(i - 1) : arr[j].fact # arr[i].fact
      LastIndexOf(i) == CHOOSE j \in i..Len(arr) :
                      /\ arr[j].fact = arr[i].fact
                      /\ \A l \in (j + 1)..Len(arr) : arr[l].fact # arr[i].fact
      firsts == SelectSeq([i \in 1..Len(arr) |-> i], First)
      NonEmpty(item) == item.fact # ""
  IN SelectSeq([n \in 1..Len(firsts) |-> arr[LastIndexOf(firsts[n])]], NonEmpty)

\* setItem of a non-empty list, removeItem otherwise
SaveMemory(arr) == IF Len(arr) > 0 THEN Ref(arr) ELSE Null

\* JSON.parse(stored_memory), [] when the key is absent
StoredArray(stored) == IF stored.present THEN stored.value ELSE <<>>

\* updateMemory from the reply on: what it leaves in the store, and whether
\* it threw
UpdateOutcome(stored, global_memory_array, reply, now) ==
  IF ~ValidationPasses(reply) \/ ApplyThrows(reply)
  THEN [threw |-> TRUE, store |-> stored]
  ELSE [threw |-> FALSE,
        store |-> SaveMemory(
                    EnsureUnique(
                      ApplyOperation(global_memory_array, reply, now)))]

MemCall(op, fact) ==
  [op |-> op, fact |-> fact, pc |-> "load", global_memory_array |-> <<>>]

CallReturned(op, threw, reply, loaded, before) ==
  [op |-> op, threw |-> threw, reply |-> reply, loaded |-> loaded,
   before |-> before]

GInit ==
  /\ memStore = Null
  /\ memCalls = <<>>
  /\ memOps = 0
  /\ memLast = CallReturned("none", FALSE, FailedReply, <<>>, Null)

\* updateMemory(message, context) is called (by sendMessage, not awaited)
callUpdateMemory ==
  /\ memOps < MaxMemoryCalls
  /\ memCalls' = Append(memCalls, MemCall("update", ""))
  /\ memOps' = memOps + 1
  /\ UNCHANGED <<memStore, memLast>>
  /\ UNCHANGED <<rvars, svars, cvars, fvars, hvars, nvars, kvars>>

\* deleteMemory(fact) is called
callDeleteMemory ==
  /\ memOps < MaxMemoryCalls
  /\ \E fact \in StoredFactTexts :
       memCalls' = Append(memCalls, MemCall("delete", fact))
  /\ memOps' = memOps + 1
  /\ UNCHANGED <<memStore, memLast>>
  /\ UNCHANGED <<rvars, svars, cvars, fvars, hvars, nvars, kvars>>

\* clearAllMemory(): one removeItem
clearAllMemory ==
  /\ memOps < MaxMemoryCalls
  /\ memStore' = Null
  /\ memOps' = memOps + 1
  /\ memLast' = CallReturned("clear", FALSE, FailedReply, <<>>, memStore)
  /\ UNCHANGED memCalls
  /\ UNCHANGED <<rvars, svars, cvars, fvars, hvars, nvars, kvars>>

\* updateMemory: await localforage.getItem(MEMORY_STORAGE_KEY), which the
\* store can reject; with the array the request is sent
loadForUpdate ==
  /\ \E k \in 1..Len(memCalls), rejects \in BOOLEAN :
       /\ memCalls[k].op = "update"
       /\ memCalls[k].pc = "load"
       /\ IF rejects
          THEN /\ memCalls' = RemoveAt(memCalls, k)
               /\ memLast' =
                    CallReturned("update", TRUE, FailedReply, <<>>, memStore)
          ELSE /\ memCalls' =
                    [memCalls EXCEPT
                       ![k].pc = "fetch",
                       ![k].global_memory_array = StoredArray(memStore)]
               /\ UNCHANGED memLast
  /\ UNCHANGED <<memStore, memOps>>
  /\ UNCHANGED <<rvars, svars, cvars, fvars, hvars, nvars, kvars>>

\* updateMemory: the reply is there; validation, the switch, the factMap
\* pass and the save
finishUpdate ==
  /\ \E k \in 1..Len(memCalls), reply \in MemoryReplies :
       /\ memCalls[k].op = "update"
       /\ memCalls[k].pc = "fetch"
       /\ LET outcome == UpdateOutcome(memStore,
                                       memCalls[k].global_memory_array,
                                       reply, memOps)
          IN /\ memStore' = outcome.store
             /\ memLast' =
                  CallReturned("update", outcome.threw, reply,
                            memCalls[k].global_memory_array, memStore)
       /\ memCalls' = RemoveAt(memCalls, k)
  /\ UNCHANGED memOps
  /\ UNCHANGED <<rvars, svars, cvars, fvars, hvars, nvars, kvars>>

\* deleteMemory: await localforage.getItem(MEMORY_STORAGE_KEY); nothing
\* more when the key is absent
loadForDelete ==
  /\ \E k \in 1..Len(memCalls) :
       /\ memCalls[k].op = "delete"
       /\ memCalls[k].pc = "load"
       /\ IF memStore.present
          THEN /\ memCalls' =
                    [memCalls EXCEPT
                       ![k].pc = "save",
                       ![k].global_memory_array = memStore.value]
               /\ UNCHANGED memLast
          ELSE /\ memCalls' = RemoveAt(memCalls, k)
               /\ memLast' =
                    CallReturned("delete", FALSE, FailedReply, <<>>, memStore)
  /\ UNCHANGED <<memStore, memOps>>
  /\ UNCHANGED <<rvars, svars, cvars, fvars, hvars, nvars, kvars>>

\* deleteMemory: the filtered list is saved, or the key removed
saveAfterDelete ==
  /\ \E k \in 1..Len(memCalls) :
       /\ memCalls[k].op = "delete"
       /\ memCalls[k].pc = "save"
       /\ memStore' =
            SaveMemory(WithoutFact(memCalls[k].global_memory_array,
                                   memCalls[k].fact))
       /\ memLast' =
            CallReturned("delete", FALSE, FailedReply,
                      memCalls[k].global_memory_array, memStore)
       /\ memCalls' = RemoveAt(memCalls, k)
  /\ UNCHANGED memOps
  /\ UNCHANGED <<rvars, svars, cvars, fvars, hvars, nvars, kvars>>

NextMemStore ==
  \/ callUpdateMemory
  \/ callDeleteMemory
  \/ clearAllMemory
  \/ loadForUpdate
  \/ finishUpdate
  \/ loadForDelete
  \/ saveAfterDelete

Init ==
  RInit /\ SInit /\ CInit /\ FInit /\ HInit /\ NInit /\ KInit /\ GInit
SpecStore == Init /\ [][NextStore]_vars
SpecMemStore == Init /\ [][NextMemStore]_vars
SpecConvo == Init /\ [][NextConvo]_vars
SpecMemory == Init /\ [][NextMemory]_vars
SpecFence == Init /\ [][NextFence]_vars
SpecTools == Init /\ [][NextTools]_vars
Spec == Init /\ [][Next]_vars
SpecStream == Init /\ [][NextStream]_vars

\* the event loop runs every continuation that is ready, and an aborted
\* fetch or read rejects
SpecFail == Init /\ [][NextFail]_vars
SpecCite == Init /\ [][NextCite]_vars
SpecAbort == Init /\ [][NextAbort]_vars
SpecAbortFair ==
  /\ SpecAbort
  /\ WF_vars(ProcessChunk)
  /\ WF_vars(StreamEnd)
  /\ WF_vars(ReadAborted)

\* ------------------------------------------------------------ properties
\* the concatenated renderings of a list of blocks
RECURSIVE ConcatRenderings(_)
ConcatRenderings(blocks) ==
  IF blocks = <<>> THEN <<>>
  ELSE renderBlockHtml(Head(blocks)) \o ConcatRenderings(Tail(blocks))

CompleteBlocks(t) == CompleteBlocksOf(splitIntoBlocks(t))
TailBlock(t) == LastBlock(splitIntoBlocks(t))
StaticHtml == Serialize(staticContainer)
LiveHtml == Serialize(streamingContainer)

\* C1: after the update that marks the message complete with text T, the
\* static region reads render(T), the single-pass rendering of the whole text.
FinalizeEquivalence ==
  (mounted /\ isComplete) => StaticHtml = mdRender(content)

\* C2: while every update so far only appended text, the static region is the
\* renderings of the complete blocks of the accumulated text, each exactly
\* once and in block order.
ExactlyOnceCommit ==
  (mounted /\ ~isComplete /\ appendOnly)
    => StaticHtml = ConcatRenderings(CompleteBlocks(content))

\* C3: an update handled as an append leaves the committed nodes in place: the
\* static region before the step is a prefix of the static region after it.
AppendOnlyStatic ==
  [][path' = "append" => StartsWith(staticContainer', staticContainer)]_vars

AppendCommitted ==
  /\ path = "append"
  /\ ~isComplete
  /\ appendedBlockCount >= 2
  /\ Len(staticContainer) >= 4

\* C4: after an update handled as an append, the live region reads the
\* rendering of the last block of the accumulated text.
LiveTail ==
  (mounted /\ ~isComplete /\ path = "append")
    => LiveHtml = renderBlockHtml(TailBlock(content))

\* C5: an update whose new text does not extend the previous text takes the
\* full-reset path.
RewindDetection ==
  [][(content' # content /\ ~isComplete' /\ ~StartsWith(content', content))
       => path' = "reset"]_vars

\* C6: after the reset routine ran for text N (a rewind, or the first update
\* from Empty) the static region reads the renderings of the complete blocks
\* of N and the live region the rendering of the last block of N.
ResetPostcondition ==
  (mounted /\ ~isComplete /\ path \in {"init", "reset"})
    => /\ StaticHtml = ConcatRenderings(CompleteBlocks(content))
       /\ LiveHtml = renderBlockHtml(TailBlock(content))

\* C7 (as claimed): 'start' is emitted exactly once, at the first update that
\* carries non-empty text while the message is not complete.
StartOnceAtFirstText ==
  /\ starts <= 1
  /\ emitStart => (content # <<>> /\ ~isComplete)
  /\ (mounted /\ content # <<>> /\ ~isComplete) => starts = 1

\* C7 (amended): 'start' is emitted at exactly the not-complete updates that
\* find no previous text and are either the first update of the component or
\* the first one after the content was cleared.
StartEmission ==
  [][emitStart' <=> (~isComplete' /\ content = <<>> /\ path # "init")]_vars

StartedAgainAfterClear ==
  /\ emitStart
  /\ starts = 2
  /\ content # <<>>
  /\ truncations >= 1

\* C8: once an update was processed with the complete flag set, the live
\* region is empty, the tail buffer and the block count are reset, and that
\* update emitted 'complete'.
CompleteCleanup ==
  isComplete => /\ streamingContainer = <<>>
                /\ tailMarkdown = <<>>
                /\ appendedBlockCount = 0
                /\ emitComplete

CompletedAfterStreaming ==
  /\ isComplete
  /\ path = "complete"
  /\ Len(staticContainer) >= 4
  /\ Len(CompleteBlocks(content)) >= 1
  /\ TailBlock(content) # <<>>

\* number of newlines at the start of a text
RECURSIVE LeadingNewlines(_)
LeadingNewlines(t) ==
  IF t # <<>> /\ Head(t) = NL THEN 1 + LeadingNewlines(Tail(t)) ELSE 0

HasBlankLine(b) == \E i \in 1..(Len(b) - 1) : b[i] = NL /\ b[i + 1] = NL

\* t is bs[1], a run of two or more newlines, bs[2], ... in this order, each
\* run taken whole
RECURSIVE Separated(_, _)
Separated(t, bs) ==
  IF Len(bs) = 1 THEN t = bs[1]
  ELSE /\ StartsWith(t, bs[1])
       /\ (bs[1] = <<>> \/ bs[1][Len(bs[1])] # NL)
       /\ LET rest == SliceFrom(t, Len(bs[1]))
              k == LeadingNewlines(rest)
          IN k >= 2 /\ Separated(SliceFrom(rest, k), Tail(bs))

BlocksOf(t, bs) ==
  /\ Len(bs) >= 1
  /\ Separated(t, bs)
  /\ \A i \in 1..Len(bs) : ~HasBlankLine(bs[i])
  /\ (t = <<>> => bs = << <<>> >>)
  /\ (Len(t) >= 2 /\ t[Len(t)] = NL /\ t[Len(t) - 1] = NL
        => bs[Len(bs)] = <<>>)

\* C9: splitIntoBlocks returns the maximal runs of text between runs of two
\* or more newlines, in order: at least one block, one empty block for the
\* empty text, an empty last block after a final separator, no blank line
\* inside a block.
BlockSplitCorrect ==
  /\ BlocksOf(content, splitIntoBlocks(content))
  /\ BlocksOf(tailMarkdown, splitIntoBlocks(tailMarkdown))

SplitLongSeparator ==
  /\ Len(splitIntoBlocks(content)) = 3
  /\ TailBlock(content) = <<>>
  /\ \E i \in 1..(Len(content) - 2) :
       content[i] = NL /\ content[i + 1] = NL /\ content[i + 2] = NL

\* C10: after each processed chunk the assistant message, as sendMessage
\* holds it and as the message list shows it, has for content the content
\* deltas received so far in arrival order and for reasoning the reasoning
\* deltas received so far in arrival order.
InOrderAccumulation ==
  /\ assistantMsg.content = recvContent
  /\ assistantMsg.reasoning = recvReasoning
  /\ \A i \in 1..Len(messages) :
       (messages[i].id = assistantMsg.id /\ phase = "streaming")
         => /\ messages[i].content = recvContent
            /\ messages[i].reasoning = recvReasoning

BothBuffersFilled ==
  /\ phase = "streaming"
  /\ Len(recvContent) >= 2
  /\ Len(recvReasoning) >= 1
  /\ recvContent # recvReasoning
  /\ Len(messages) = 2
  /\ messages[2].content = recvContent
  /\ messages[2].content[1] # messages[2].content[2]

\* C11 (as claimed): a chunk whose content is absent leaves the text as it
\* is, and the first-token marker too unless its reasoning is present; a
\* chunk whose content is the empty string is processed: it marks the first
\* token as received and leaves the text as it is; the same holds for the
\* reasoning field; and a delta whose content or reasoning is the empty
\* string reaches the loop as a chunk with that field present and empty.
AbsentVersusEmpty ==
  [][/\ (phase = "streaming" /\ pending # <<>> /\ pending' = Tail(pending))
        => LET chunk == Head(pending)
           IN /\ ~chunk.content.present
                   => assistantMsg'.content = assistantMsg.content
              /\ ~chunk.reasoning.present
                   => assistantMsg'.reasoning = assistantMsg.reasoning
              /\ (~chunk.content.present /\ ~chunk.reasoning.present)
                   => firstTokenReceived' = firstTokenReceived
              /\ (chunk.content.present \/ chunk.reasoning.present)
                   => firstTokenReceived'
              /\ chunk.content = Present(<<>>)
                   => assistantMsg'.content = assistantMsg.content
              /\ chunk.reasoning = Present(<<>>)
                   => assistantMsg'.reasoning = assistantMsg.reasoning
     /\ \A d \in 1..Len(parsedDelta') :
          /\ parsedDelta'[d].content = Present(<<>>)
               => \E i \in 1..Len(pending') :
                    pending'[i].content = Present(<<>>)
          /\ parsedDelta'[d].reasoning = Present(<<>>)
               => \E i \in 1..Len(pending') :
                    pending'[i].reasoning = Present(<<>>)]_vars

\* C12: the tool list of the assistant message, as sendMessage holds it and
\* as the message list shows it while the stream runs, has at most one
\* record per index, holds for each index the last record that arrived for
\* it, and keeps the indexes in the order in which they first arrived.
ToolListOk(tools) ==
  /\ \A i, j \in 1..Len(tools) : tools[i].index = tools[j].index => i = j
  /\ \A k \in ToolIndexes :
       IF lastTool[k] = NoTool
       THEN \A i \in 1..Len(tools) : tools[i].index # k
       ELSE \E i \in 1..Len(tools) : tools[i] = lastTool[k]
  /\ [i \in 1..Len(tools) |-> tools[i].index] = toolOrder

ExecutedToolIdentity ==
  /\ ToolListOk(assistantMsg.executed_tools)
  /\ \A i \in 1..Len(messages) :
       (messages[i].id = assistantMsg.id /\ phase = "streaming")
         => ToolListOk(messages[i].executed_tools)

ToolReplacedInPlace ==
  /\ Len(assistantMsg.executed_tools) = 2
  /\ assistantMsg.executed_tools[1] = Tool(0, "u")
  /\ assistantMsg.executed_tools[2].index = 1
  /\ toolOrder = <<0, 1>>
  /\ Len(messages) = 2
  /\ messages[2].executed_tools = assistantMsg.executed_tools

\* C13 (as claimed): once sendMessage has finished a stream the user
\* aborted, the assistant message is complete and its text is the content
\* text read from the response, nothing more and nothing less.
AbortKeepsText ==
  (phase = "done" /\ aborted)
    => \A i \in 1..Len(messages) :
         messages[i].id = assistantMsg.id
           => messages[i].complete /\ messages[i].content = deltaText

\* C14 (as claimed): once sendMessage has created the assistant message,
\* the message is eventually marked complete in the message list with
\* isLoading false.
StreamTerminatesComplete ==
  (phase \in {"streaming", "rejected"})
    ~> (/\ ~isLoading
        /\ \E i \in 1..Len(messages) :
             messages[i].id = assistantMsg.id /\ messages[i].complete)

\* ---------------------------------------------- citation properties
\* the markers of the container, by block and position
MarkerPositions ==
  IF ~container.present THEN {}
  ELSE {bk \in (1..Len(container.value)) \X (1..(2 * MaxPieces)) :
          /\ bk[2] <= Len(container.value[bk[1]].kids)
          /\ container.value[bk[1]].kids[bk[2]].marker}
NodeAt(c, bk) == c.value[bk[1]].kids[bk[2]]

\* the URL the specification extracts from an output, <<>> if there is none
ExtractUrl(output) == IF L1Url(output) # <<>> THEN L1Url(output) ELSE BareUrl(output)

\* the records for index n with a non-empty output that holds a URL
ResolvingRecords(tools, n) ==
  {i \in 1..Len(tools) :
     /\ tools[i].index = n
     /\ tools[i].output # <<>>
     /\ ExtractUrl(tools[i].output) # <<>>}

\* the hostname without a leading "www."
StripLeadingWww(hostname) ==
  IF hostname # <<>> /\ hostname[1] = Www THEN Tail(hostname) ELSE hostname

RawMarkerText(m) == <<OpenBr>> \o m.content \o <<CloseBr>>
Inert(m) == m.href = <<"#">> /\ m.onclick

\* C15 (as claimed): after the first call on a freshly rendered subtree,
\* with a tool list, a marker with index N is resolved exactly when the list
\* holds a record with index N and a non-empty output that holds a URL; a
\* resolved marker has that URL as href, shows the URL's hostname without a
\* leading "www.", and has lost its click suppression.
CitationResolution ==
  (calls = 1 /\ lastTools.present)
    => \A bk \in MarkerPositions :
         LET m == NodeAt(container, bk)
             recs == ResolvingRecords(lastTools.value, CitationIndex(m.content))
         IN IF recs = {} THEN Inert(m)
            ELSE LET first == CHOOSE i \in recs : \A k \in recs : i <= k
                     url == ExtractUrl(lastTools.value[first].output)
                 IN /\ m.href = url
                    /\ m.text = StripLeadingWww(UrlHostname(url))
                    /\ ~m.onclick

\* C16 (as claimed): after the first call on a freshly rendered subtree,
\* with a tool list that may be empty, a marker for which the list holds no
\* record with a URL keeps its placeholder href and its click suppression
\* and still shows the raw marker text.
UnresolvedStaysInert ==
  (calls = 1 /\ lastTools.present)
    => \A bk \in MarkerPositions :
         LET m == NodeAt(container, bk)
         IN ResolvingRecords(lastTools.value, CitationIndex(m.content)) = {}
              => Inert(m) /\ m.text = RawMarkerText(m)

\* C17 (as claimed): a call of processCitationsInPlace leaves the href and
\* the display text of every marker that was already resolved as they are.
ResolvedStable ==
  [][(calls' = calls + 1)
       => \A bk \in MarkerPositions :
            ~Inert(NodeAt(container, bk))
              => /\ NodeAt(container', bk).href = NodeAt(container, bk).href
                 /\ NodeAt(container', bk).text = NodeAt(container, bk).text]_vars

\* C18: the subtree a call with a tool list has produced is left as it is
\* by another call with the same tool list.
ResolverIdempotent ==
  calls >= 1 => processCitationsInPlace(container, lastTools) = container

ResolvedAndUnresolved ==
  /\ calls >= 1
  /\ lastTools.present
  /\ \E bk \in MarkerPositions : ~Inert(NodeAt(container, bk))
  /\ \E bk \in MarkerPositions :
       Inert(NodeAt(container, bk)) /\ NodeAt(container, bk).span

\* C19: a call of processCitationsInPlace leaves the message text, the
\* number and order of the blocks and of their children, every node that is
\* no marker, and the payload of every marker as they are, and changes
\* nothing when the container or the tool list is missing.
ResolverFrame ==
  [][(calls' = calls + 1)
       => /\ citeText' = citeText
          /\ container'.present = container.present
          /\ (~container.present \/ ~lastTools'.present)
               => container' = container
          /\ Len(container'.value) = Len(container.value)
          /\ \A b \in 1..Len(container.value) :
               LET old == container.value[b]
                   new == container'.value[b]
               IN /\ new.tag = old.tag
                  /\ Len(new.kids) = Len(old.kids)
                  /\ \A k \in 1..Len(old.kids) :
                       IF old.kids[k].marker
                       THEN /\ new.kids[k].marker
                            /\ new.kids[k].content = old.kids[k].content
                       ELSE new.kids[k] = old.kids[k]]_vars

MarkerResolvedBesideText ==
  /\ calls >= 1
  /\ lastTools.present
  /\ Len(container.value) >= 2
  /\ container.value[1].kids = <<TextNode(<<"a">>)>>
  /\ \E bk \in MarkerPositions : bk[1] > 1 /\ ~Inert(NodeAt(container, bk))

\* ------------------------------------------------ render failure
IsSuffix(t, s) == Len(t) <= Len(s) /\ SubSeq(s, Len(s) - Len(t) + 1, Len(s)) = t

\* C20 (as claimed): while the text only grows, after every update handled
\* as an append, also one in which rendering a block failed, the previous
\* text is the text the update delivered and the tail buffer is an end of
\* that text, so that the next update applies exactly its own suffix.
RenderFailureContained ==
  (appendOnly /\ path \in {"append", "failed"})
    => prevContent = content /\ IsSuffix(tailMarkdown, content)

\* ------------------------------------------------ renderer bookkeeping
\* C27 (as claimed): in every state of the mounted component the remembered
\* last-render key is the HTML the live region holds, so that a write
\* setStreamingHtml skips would not have changed the live region.
NoOpTransparent ==
  mounted => lastRenderKey = LiveHtml

\* C28 (as claimed): after every not-complete update handled as initial,
\* append or reset the block counter is the number of complete blocks of the
\* split of the whole accumulated text, and an update handled as an append
\* does not decrease it.
CommittedBlockCount ==
  [][(~isComplete' /\ path' \in {"init", "append", "reset"})
       => /\ appendedBlockCount' = Len(CompleteBlocks(content'))
          /\ (path' = "append" => appendedBlockCount' >= appendedBlockCount)]_vars

\* C29: for a text P and a text P+S that extends it, the complete blocks of
\* split(P) are the first complete blocks of split(P+S), unchanged and in
\* the same order.
CompleteBlocksStable ==
  [][StartsWith(content', content)
       => StartsWith(CompleteBlocks(content'), CompleteBlocks(content))]_vars

LastBlockCompletedByAppend ==
  /\ path = "append"
  /\ appendOnly
  /\ ~isComplete
  /\ Len(CompleteBlocks(content)) = 2
  /\ CompleteBlocks(content)[2] # <<>>
  /\ TailBlock(content) # <<>>
  /\ Len(tailMarkdown) > Len(TailBlock(content))

\* ------------------------------------------------ URL extraction
\* the positions of s at which a URL starts, and the URL that starts at j
UrlStarts(s) ==
  {j \in 1..Len(s) : s[j] = Scheme /\ j < Len(s) /\ s[j + 1] # Sp}
RECURSIVE UrlFrom(_, _)
UrlFrom(s, j) ==
  IF j > Len(s) \/ s[j] = Sp THEN <<>> ELSE <<s[j]>> \o UrlFrom(s, j + 1)

\* the URLs of "L1: URL: <url>" lines: only spaces between prefix and URL
L1Starts(s) ==
  {j \in UrlStarts(s) :
     \E i \in 1..(j - 1) :
       s[i] = UrlPrefix /\ \A k \in (i + 1)..(j - 1) : s[k] = Sp}

Least(S) == CHOOSE i \in S : \A k \in S : i <= k

\* C30: after the first call on a freshly rendered subtree, a marker whose
\* tool record has an output with an "L1: URL:" line is resolved to the URL
\* of that line, also when another URL comes earlier in the output; without
\* such a line it is resolved to the first URL of the output; and with no
\* URL from the tool list it is resolved only to a URL its payload holds.
UrlExtractionPriority ==
  (calls = 1 /\ lastTools.present)
    => \A bk \in MarkerPositions :
         LET m == NodeAt(container, bk)
             out == FoundOutput(lastTools.value, CitationIndex(m.content))
         IN IF L1Starts(out) # {}
            THEN m.href = UrlFrom(out, Least(L1Starts(out)))
            ELSE IF UrlStarts(out) # {}
            THEN m.href = UrlFrom(out, Least(UrlStarts(out)))
            ELSE IF UrlStarts(m.content) # {}
            THEN m.href = UrlFrom(m.content, Least(UrlStarts(m.content)))
            ELSE m.href = <<"#">>

L1UrlAfterBareUrl ==
  /\ calls = 1
  /\ lastTools.present
  /\ \E bk \in MarkerPositions :
       LET m == NodeAt(container, bk)
           out == FoundOutput(lastTools.value, CitationIndex(m.content))
       IN /\ L1Starts(out) # {}
          /\ Least(UrlStarts(out)) < Least(L1Starts(out))
          /\ m.href = UrlFrom(out, Least(L1Starts(out)))
          /\ m.href # UrlFrom(out, Least(UrlStarts(out)))

\* ------------------------------------------------ highlight failure
\* the text a sequence of HTML tokens stands for
RECURSIVE Unescape(_)
Unescape(html) ==
  IF html = <<>> THEN <<>>
  ELSE (IF Head(html) = "&lt;" THEN <<"<">>
        ELSE IF Head(html) = "&amp;" THEN <<"&">>
        ELSE <<Head(html)>>) \o Unescape(Tail(html))

\* the content of the code element of a code-block wrapper
CodeElement(html) == SubSeq(html, 8, Len(html) - 2)

FenceLanguage == IF tokenInfo # <<>> THEN tokenInfo[1] ELSE "text"

\* C21: when the language of a fenced block is unknown to the highlighter,
\* or the highlighter throws, the rule returns the normal code-block
\* wrapper, whose code element holds the code with every markup character
\* escaped and nothing else, and no exception leaves the rule.
HighlightFailureContained ==
  (fenceResult # NotCalled
     /\ (FenceLanguage \notin KnownLanguages \/ highlightThrows))
    => /\ ~fenceResult.threw
       /\ fenceResult.html =
            CodeBlockWrapper(FenceLanguage, CodeElement(fenceResult.html))
       /\ \A i \in 1..Len(CodeElement(fenceResult.html)) :
            CodeElement(fenceResult.html)[i] \notin {"<", "&"}
       /\ Unescape(CodeElement(fenceResult.html)) = tokenContent

HighlighterThrewOnMarkup ==
  /\ fenceResult # NotCalled
  /\ highlightThrows
  /\ FenceLanguage \in KnownLanguages
  /\ ~fenceResult.threw
  /\ \E i \in 1..Len(tokenContent) : tokenContent[i] = "<"
  /\ \E i \in 1..Len(fenceResult.html) : fenceResult.html[i] = "&lt;"

\* ------------------------------------------------ tool metadata order
\* the tool indexes for which a record has arrived
ReceivedIndexes == {k \in ToolIndexes : lastTool[k] # NoTool}

\* the lists that hold, in some order, the last record of each such index
LastRecordLists ==
  {l \in [1..Cardinality(ReceivedIndexes) -> {lastTool[k] : k \in ReceivedIndexes}] :
     \A k \in ReceivedIndexes : \E j \in 1..Len(l) : l[j] = lastTool[k]}

\* C26: what the chat panel shows for the completed message of a response
\* (which markers are resolved, and to which URL and display text) is what
\* resolving the final text against the last record received for each tool
\* index gives, in whatever order the records are listed: the interleaving
\* of tool updates and text has no influence.
ToolOrderIrrelevant ==
  \A i \in 1..Len(messages) :
    (phase = "done" /\ messages[i].role = "assistant" /\ messages[i].complete)
      => \A l \in LastRecordLists :
           renderMessageContent(messages[i].content, messages[i].executed_tools)
             = processCitationsInPlace(
                 Ref(ParseCitationHtml(
                       markdownItCitation(mdRender(messages[i].content)),
                       1, FALSE, <<>>, <<>>, <<>>)),
                 Ref(l))

\* the only content chunk was the first chunk of the response and carried
\* the marker; the record for index 1 arrived first, and every delta
\* carries at most one record: the record for index 0 arrived after the
\* marker that cites it, and the marker is resolved
ToolArrivedAfterText ==
  /\ phase = "done"
  /\ Len(messages) = 2
  /\ messages[2].complete
  /\ messages[2].content = Marker(<<"0">>)
  /\ messages[2].firstTokenTime = 1
  /\ messages[2].tokenCount = 1
  /\ toolOrder = <<1, 0>>
  /\ LET shown == renderMessageContent(messages[2].content,
                                       messages[2].executed_tools)
     IN /\ shown.value[1].kids[1].marker
        /\ shown.value[1].kids[1].href # <<"#">>

\* the ids of the messages some stored conversation holds
StoredIds ==
  UNION {{conversations[c].messages[i].id :
            i \in 1..Len(conversations[c].messages)} :
         c \in 1..Len(conversations)}

\* C22 Incognito keeps history out of storage: no message sent in incognito
\* mode, and no response to one, is in a stored conversation, whatever the
\* interleaving of sends, chunks, newConversation and toggleIncognito.
IncognitoNotStored == StoredIds \cap incognitoIds = {}

\* the fields of a message that are frozen once it is complete
FrozenFields(msg) ==
  IF msg.role = "assistant"
  THEN <<msg.id, msg.content, msg.reasoning, msg.executed_tools>>
  ELSE <<msg.id, msg.content>>

\* a step of a sendMessage call (the conversation operations replace the
\* whole list by another conversation's)
SendStep == sendMessage \/ startStream \/ streamChunk \/ streamFinally

\* C24 Complete messages are frozen: a step of a sendMessage call (the
\* pushes, a chunk, the finally block) leaves every complete message of the
\* message list in its place with the content, reasoning and executed_tools
\* it had.
CompleteMessagesFrozen ==
  [][SendStep =>
       \A i \in 1..Len(chatMessages) :
         chatMessages[i].complete =>
           /\ i <= Len(chatMessages')
           /\ FrozenFields(chatMessages'[i]) = FrozenFields(chatMessages[i])]_vars

IncompleteAssistants ==
  {i \in 1..Len(chatMessages) :
     chatMessages[i].role = "assistant" /\ ~chatMessages[i].complete}

\* C25 No overlapping streams: at any time at most one sendMessage call is
\* in flight and at most one assistant message of the list is incomplete.
NoOverlappingStreams ==
  /\ Len(inFlight) <= 1
  /\ Cardinality(IncompleteAssistants) <= 1

\* C23 Incognito does not use memory: a send in incognito mode starts no
\* memory update, and the system prompt of the request for a message sent
\* in incognito mode is one that no stored fact went into.
IncognitoIgnoresMemory ==
  [][/\ (sendMessage /\ isIncognito) => memoryJobs' = memoryJobs
     /\ (lastRequest'.sent /\ lastRequest'.incognito) =>
          lastRequest'.systemPrompt
            \in {generateSystemPrompt(enabled, <<>>) : enabled \in BOOLEAN}]_vars

\* C31 Renderer buffers track the observed text: after every not-complete
\* update the remembered previous text is the content just observed, and the
\* last block of the split of the tail buffer is the last block of the split
\* of that content.
BuffersTrackContent ==
  (path \notin {"none", "complete"}) =>
    /\ prevContent = content
    /\ LastBlock(splitIntoBlocks(tailMarkdown))
         = LastBlock(splitIntoBlocks(content))

\* the assistant messages the running sendMessage calls created
OwnIds == {inFlight[k].msg.id : k \in 1..Len(inFlight)}

\* C32 A stream only touches its own message: a chunk step leaves every
\* message of the list other than the one its sendMessage created in place
\* and as it was, and the finally block writes to no stored conversation
\* other than the one the message was sent in.
StreamTouchesOwnMessage ==
  [][/\ streamChunk =>
          \A i \in 1..Len(chatMessages) :
            chatMessages[i].id \notin OwnIds =>
              /\ i <= Len(chatMessages')
              /\ chatMessages'[i] = chatMessages[i]
     /\ streamFinally =>
          \A c \in 1..Len(conversations) :
            conversations'[c] # conversations[c] =>
              \E k \in 1..Len(inFlight) : inFlight[k].convo = c]_vars

\* C33 Request history has no duplicates: the request built for a query
\* holds, after the system prompt, every complete message the list had
\* before the query once and in order, then the query once; neither the
\* query a second time nor the incomplete assistant message is in it.
RequestHistoryExact ==
  [][\A k \in 1..Len(inFlight) :
       (/\ Len(inFlight') = Len(inFlight)
        /\ inFlight[k].pc = "ready"
        /\ inFlight'[k].pc = "loop") =>
         LET own == {inFlight[k].msg.id - 1, inFlight[k].msg.id}
             Earlier(msg) == msg.complete /\ msg.id \notin own
             before == SelectSeq(chatMessages, Earlier)
         IN lastRequest'.messages =
              <<[role |-> "system", content |-> lastRequest'.systemPrompt]>>
                \o [i \in 1..Len(before) |-> PlainMessage(before[i])]
                \o <<[role |-> "user", content |-> inFlight[k].message]>>]_vars

\* C34 Conversation store consistency: the metadata list never has two
\* entries for one id; and once every call has returned, the ids with a
\* metadata entry are the ids with stored conversation data, and no deleted
\* conversation is in the metadata or in storage.
StoreConsistent ==
  /\ \A i, j \in 1..Len(metadata) : metadata[i] = metadata[j] => i = j
  /\ storeCalls = <<>> =>
       /\ ListedIds = convStore
       /\ deletedConvs \cap (ListedIds \cup convStore) = {}

\* the fact texts of a stored memory
FactsOf(stored) ==
  {StoredArray(stored)[i].fact : i \in 1..Len(StoredArray(stored))}

\* the last call that returned was an updateMemory that went through with
\* the memory it had loaded still in the store
UpdateWentThrough ==
  /\ memLast.op = "update"
  /\ ~memLast.threw
  /\ memLast.loaded = StoredArray(memLast.before)

\* C35 Memory facts are unique and never stored empty: the memory key is
\* absent or holds a non-empty list with no two entries of the same fact and
\* no empty fact; and an add of facts that are all stored already leaves
\* the stored memory as it was.
MemoryFactsUnique ==
  /\ memStore.present =>
       /\ Len(memStore.value) > 0
       /\ \A i, j \in 1..Len(memStore.value) :
            memStore.value[i].fact = memStore.value[j].fact => i = j
       /\ \A i \in 1..Len(memStore.value) : memStore.value[i].fact # ""
  /\ (/\ UpdateWentThrough
      /\ memLast.reply.operation = "add"
      /\ memLast.reply.remove.kind = "missing"
      /\ memLast.reply.modify.kind = "missing"
      /\ \A n \in 1..Len(memLast.reply.add.value) :
           Trim(memLast.reply.add.value[n]) \in FactsOf(memLast.before)) =>
       memStore = memLast.before

\* a modify turned one stored fact into another stored fact, and the two
\* entries were merged
DuplicateMerged ==
  /\ UpdateWentThrough
  /\ memLast.reply.operation = "modify"
  /\ FactsOf(memLast.before) = {"a", "b"}
  /\ Len(StoredArray(memStore)) = 1

\* the facts of a reply have the wrong shape: the facts object or the list
\* of the operation is missing, or a list is no list
WrongShape(reply) ==
  /\ reply.operation \in FactOperations
  /\ \/ ~reply.hasFacts
     \/ OwnField(reply).kind # "valid"
     \/ "other" \in {reply.add.kind, reply.remove.kind, reply.modify.kind}

NoLostMemoryUpdate ==
  [][/\ (finishUpdate /\ ~memLast'.threw) =>
          FactsOf(memStore')
            = FactsOf(SaveMemory(EnsureUnique(
                ApplyOperation(StoredArray(memStore), memLast'.reply,
                               memOps))))
     /\ \A k \in 1..Len(memCalls) :
          (/\ memCalls[k].op = "delete"
           /\ memCalls[k].pc = "save"
           /\ memCalls' = RemoveAt(memCalls, k)) =>
            FactsOf(memStore') = FactsOf(memStore) \ {memCalls[k].fact}]_vars

\* C38 Reasoning timestamps: the reasoning start time is set by the first
\* chunk with a reasoning delta and never changed afterwards; the end time
\* is set once, by the first chunk with a non-empty content delta that
\* comes after the start; an end time is never there without a start time;
\* and a complete assistant message has a reasoning duration exactly when
\* it has a start time.
ReasoningTimestamps ==
  [][LET start == assistantMsg.reasoningStartTime
         end == assistantMsg.reasoningEndTime
         reasoningDelta == pending # <<>> /\ Head(pending).reasoning.present
         contentDelta == /\ pending # <<>>
                         /\ Head(pending).content.present
                         /\ Head(pending).content.text # <<>>
     IN /\ start # NoTime => assistantMsg'.reasoningStartTime = start
        /\ end # NoTime => assistantMsg'.reasoningEndTime = end
        /\ (start = NoTime /\ assistantMsg'.reasoningStartTime # NoTime) =>
             ProcessChunk /\ reasoningDelta
               /\ assistantMsg'.reasoningStartTime = clock
        /\ (ProcessChunk /\ reasoningDelta) =>
             assistantMsg'.reasoningStartTime # NoTime
        /\ (end = NoTime /\ assistantMsg'.reasoningEndTime # NoTime) =>
             ProcessChunk /\ contentDelta /\ start # NoTime
               /\ assistantMsg'.reasoningEndTime = clock
        /\ (ProcessChunk /\ contentDelta /\ start # NoTime) =>
             assistantMsg'.reasoningEndTime # NoTime
        /\ assistantMsg'.reasoningEndTime # NoTime =>
             assistantMsg'.reasoningStartTime # NoTime
        /\ \A i \in 1..Len(messages') :
             (messages'[i].role = "assistant" /\ messages'[i].complete) =>
               (messages'[i].reasoningDuration # NoDuration
                  <=> messages'[i].reasoningStartTime # NoTime)]_vars

\* a message with two reasoning deltas and then text is complete
ReasoningTimed ==
  \E i \in 1..Len(messages) :
    /\ messages[i].role = "assistant"
    /\ messages[i].complete
    /\ messages[i].reasoningEndTime # NoTime
    /\ messages[i].reasoningDuration # NoDuration
    /\ Len(recvReasoning) >= 2

====
